---- MODULE Spec2Model ----
(***************************************************************************)
(* A model of gov-doc-rag: the indexer's chunker (services/indexer/cli.py), *)
(* the /ask retrieval path with its reranker (services/api/main.py) and the *)
(* citation scorer of the evaluation harness (evals/run_ragas.py).          *)
(*                                                                          *)
(* Text is a sequence of one-character strings; Python's 0-based slices are *)
(* translated to 1-based SubSeq.  Segment ids are real strings.             *)
(***************************************************************************)
EXTENDS Integers, Sequences, FiniteSets, TLC

\* ------------------------------------------------------------------ bounds
\* Largest number of pages of a normalized document.
MaxPages == 2
\* Largest number of characters of page text in a whole document.
MaxText == 4
\* Largest value of CHUNK_SIZE and of CHUNK_OVERLAP drawn from the environment.
MaxChunk == 3
\* Cap on the windows one _sliding_window call may collect (the loop of a bad
\* configuration never ends; the cap keeps the state space finite).
MaxOut == 5
\* Largest number of matches the vector index holds for a query, and largest
\* value of RETRIEVAL_K.
MaxFetch == 3
\* Largest value of RERANK_TOP_N and of a request's k.
MaxK == 2
\* Largest number of results in one response of the reranker.
MaxResults == 2
\* Largest number of citations in an expected_citations cell and in a response.
MaxCites == 2
\* Largest number of examples of an evaluation batch.
MaxExamples == 2
\* most citations a batch of API responses carries into analyze_reranker_metrics
MaxStatCites == 4
\* longest list of texts, and of language tags, handed to embed_texts
MaxEmbedTexts == 2
\* request threads of the API that run ask at the same time
MaxThreads == 2
\* most texts handed to _cohere_embed in one call
MaxBatchTexts == 200
\* len(pages) of poll_textract is counted up to this number
MaxCounted == 3
\* most child ids of a TABLE block
MaxCells == 2
\* largest RowIndex and ColumnIndex of a CELL block
MaxIndex == 2

\* ------------------------------------------------------------------ helpers
Min2(a, b) == IF a <= b THEN a ELSE b

Max2(a, b) == IF a >= b THEN a ELSE b

SetMin(S) == CHOOSE x \in S : \A y \in S : x <= y

SetMax(S) == CHOOSE x \in S : \A y \in S : x >= y

\* The characters page text is drawn from.
Chars == {"a", "\n"}

\* Python's str.isspace for the characters that occur.
IsSpace(c) == c \in {" ", "\n", "\t", "\r"}

\* str.strip(): drop leading and trailing whitespace.
strip(s) ==
  LET keep == {k \in 1..Len(s) : ~IsSpace(s[k])}
  IN IF keep = {} THEN <<>> ELSE SubSeq(s, SetMin(keep), SetMax(keep))

\* Slice with its end one too far (s[i:j+1]).
SliceOneMore(s, i, j) == SubSeq(s, i + 1, Min2(j + 1, Len(s)))

\* Python's s[i:j] for 0 <= i <= j.
Slice(s, i, j) == SubSeq(s, i + 1, Min2(j, Len(s)))

\* sep.join(parts)
RECURSIVE join(_, _)
join(sep, parts) ==
  IF parts = <<>> THEN <<>>
  ELSE IF Len(parts) = 1 THEN parts[1]
  ELSE parts[1] \o sep \o join(sep, Tail(parts))

\* Where a match of the regex \n\s*\n that starts at pos ends (0: no match):
\* \s* is greedy, so the match runs to the last newline of the whitespace run
\* that follows pos.
BlankMatchEnd(text, pos) ==
  LET run == {e \in (pos + 1)..Len(text) : \A j \in (pos + 1)..e : IsSpace(text[j])}
      nl == {e \in run : text[e] = "\n"}
  IN IF nl = {} THEN 0 ELSE SetMax(nl)

\* re.split(r"\n\s*\n", text): the pieces between the leftmost matches.
RECURSIVE re_split(_, _, _)
re_split(text, start, pos) ==
  IF pos > Len(text) THEN <<SubSeq(text, start, Len(text))>>
  ELSE IF text[pos] = "\n" /\ BlankMatchEnd(text, pos) # 0
       THEN <<SubSeq(text, start, pos - 1)>>
              \o re_split(text, BlankMatchEnd(text, pos) + 1, BlankMatchEnd(text, pos) + 1)
       ELSE re_split(text, start, pos + 1)

\* [f(p) for p in s]
RECURSIVE StripAll(_)
StripAll(s) == IF s = <<>> THEN <<>> ELSE <<strip(Head(s))>> \o StripAll(Tail(s))

NonEmpty(s) == s # <<>>

\* ------------------------------------------------------------------ state
VARIABLES
  CHUNK_SIZE,      \* indexer configuration, read from the environment at import
  CHUNK_OVERLAP,
  normalized,      \* the normalized document handed to build_chunks
  pc,              \* position in build_chunks / _sliding_window
  pi,              \* index of the page the page loop is at (1-based)
  ti,              \* enumerate index of the table loop (0-based, as in the code)
  caller,          \* which call of _sliding_window is running: "text" or "table"
  sw_in,           \* _sliding_window: its argument chunks
  sw_k,            \* _sliding_window: index of the for loop (1-based)
  sw_i,            \* _sliding_window: i of the while loop
  sw_prev,         \* value of i at the window emitted before the current one (-1: none)
  sw_out,          \* _sliding_window: out
  chunks,          \* build_chunks: the list of Chunk being built / returned
  run,             \* 1: first call of build_chunks on the document, 2: second
  first_ids        \* ids returned by the first call

chunkVars == <<CHUNK_SIZE, CHUNK_OVERLAP, normalized, pc, pi, ti, caller,
               sw_in, sw_k, sw_i, sw_prev, sw_out, chunks, run, first_ids>>

VARIABLES
  ENABLE_RERANK,   \* API configuration, read from the environment at import
  RERANK_TOP_N,
  RETRIEVAL_K,
  _cohere_client,  \* the cached reranker client: "None" or "client"
  apc,             \* position of the request in ask
  req_k,           \* inp.k of the request
  index_queries,   \* the top_k of every idx.query call of the request
  fetched,         \* what pinecone_query returned, as it was returned
  matches,         \* ask: matches
  rerank_calls,    \* the top_n of every client.rerank call of the request
  rerank_response, \* rerank_response.results of the request
  rerank_raised,   \* where the rerank step raised: "none", "client", "call", "apply"
  failed_at,       \* where ask raised: "none", "query", "rerank", "llm"
  citations        \* the citations of the JSON response

retrVars == <<ENABLE_RERANK, RERANK_TOP_N, RETRIEVAL_K, _cohere_client, apc, req_k,
              index_queries, fetched, matches, rerank_calls, rerank_response,
              rerank_raised, failed_at, citations>>

VARIABLES
  spc,             \* position in calculate_citation_metrics: "loop" or "done"
  examples_seen,   \* number of (golden, response) pairs the zip loop has taken
  cur_E,           \* last iteration: the citations the golden row's cell lists
  cur_R,           \* last iteration: the (doc_id, page) citations of the response
  total_precision, \* calculate_citation_metrics: running sums and count
  total_recall,
  count,
  metrics,         \* the dict calculate_citation_metrics returns
  scores           \* the <<precision, recall>> of every example counted so far

scoreVars == <<spc, examples_seen, cur_E, cur_R, total_precision,
               total_recall, count, metrics, scores>>

VARIABLES
  st_pc,           \* position in analyze_reranker_metrics: "loop" or "done"
  seen_scores,     \* citation.get("rerank_score") of every citation visited so far
  rerank_scores,   \* analyze_reranker_metrics: rerank_scores
  has_scores,      \* analyze_reranker_metrics: has_scores
  stats            \* the dict analyze_reranker_metrics returns

statsVars == <<st_pc, seen_scores, rerank_scores, has_scores, stats>>

VARIABLES
  EMBEDDING_MODEL, \* the model id, as the words and separators it is made of
  em_texts,        \* embed_texts: the argument texts
  em_langs,        \* embed_texts: the argument langs / source_langs (a list or None)
  em_pc,           \* position in embed_texts
  em_j,            \* index of the zip loop (1-based)
  tx,              \* embed_texts: tx
  translate_calls, \* the Text of every translate_text call
  handed           \* the texts handed to the embedding provider

embedVars == <<EMBEDDING_MODEL, em_texts, em_langs, em_pc, em_j, tx, translate_calls,
               handed>>

VARIABLES
  cb_pc,           \* position in _cohere_embed
  cb_texts,        \* _cohere_embed: texts
  cb_i,            \* _cohere_embed: i of the range loop
  cb_batches,      \* the "texts" of every invoke_model request, in order
  all_embeddings   \* _cohere_embed: all_embeddings

batchVars == <<cb_pc, cb_texts, cb_i, cb_batches, all_embeddings>>

VARIABLES
  _pinecone_cached, \* the cached index handle: 0 for None, else the object made
  th_pc,            \* position of every request thread in pinecone_connect
  th_obj,           \* the PineconeIndex object every thread made (0: none)
  th_ret,           \* what pinecone_connect returned to every thread (0: nothing yet)
  constructed       \* how many times pinecone.Pinecone(...) has been constructed

connVars == <<_pinecone_cached, th_pc, th_obj, th_ret, constructed>>

VARIABLES
  poll_pc,         \* poll_textract: "polling", "returned", "failed" or "timeout"
  waited,          \* poll_textract: waited
  next_token,      \* poll_textract: whether next_token is set
  status,          \* poll_textract: status of the last response
  pages_n          \* poll_textract: len(pages), counted up to MaxCounted

pollVars == <<poll_pc, waited, next_token, status, pages_n>>

VARIABLES
  tb_pc,           \* position around _extract_tables: "call" or "done"
  blocks,          \* the Textract blocks handed to _extract_tables
  tables           \* what _extract_tables returns

tableVars == <<tb_pc, blocks, tables>>

VARIABLES
  fl_pc,           \* position around _flatten_table: "call" or "done"
  fl_rows,         \* _flatten_table: rows
  fl_out           \* what _flatten_table returns

flatVars == <<fl_pc, fl_rows, fl_out>>

VARIABLES
  rt_stage,        \* the external call a request is at: "embed", "rerank", "translate", "done", "failed"
  rt_model,        \* which embedding function runs: "cohere" or "titan"
  rt_texts,        \* number of texts handed to the embedding function
  rt_j,            \* titan_embed: index of the text the loop is at (1-based)
  rt_attempts,     \* attempts made so far by every kind of call
  rt_invokes,      \* number of invoke_model requests sent
  rt_degraded      \* the rerank call failed and the fallback was taken

retryVars == <<rt_stage, rt_model, rt_texts, rt_j, rt_attempts, rt_invokes, rt_degraded>>

VARIABLES
  pr_pc,           \* position around build_user_prompt: "call" or "done"
  pr_question,     \* build_user_prompt: question
  pr_contexts,     \* build_user_prompt: contexts
  user_prompt      \* what build_user_prompt returns

promptVars == <<pr_pc, pr_question, pr_contexts, user_prompt>>

VARIABLES
  nm_pc,           \* position around normalize: "call" or "done"
  textract_pages,  \* normalize: the responses poll_textract collected
  all_blocks,      \* normalize: all_blocks
  pages_out        \* normalize: pages_out

normVars == <<nm_pc, textract_pages, all_blocks, pages_out>>

VARIABLES
  pk_pc,           \* position in the merge loop of _split_paragraphs: "loop" or "done"
  pk_size,         \* CHUNK_SIZE of the call
  pk_paras,        \* _split_paragraphs: paras
  pk_k,            \* index of the paragraph the loop is at (1-based)
  pk_buf,          \* _split_paragraphs: buf
  pk_out,          \* _split_paragraphs: out
  pk_groups        \* the paragraphs every closed or open buffer was made of

packVars == <<pk_pc, pk_size, pk_paras, pk_k, pk_buf, pk_out, pk_groups>>

VARIABLES
  up_pc,           \* position in pinecone_upsert: "loop" or "done"
  up_chunks,       \* pinecone_upsert: chunks
  up_i,            \* index of the enumerate loop (0-based)
  up_batch,        \* pinecone_upsert: batch
  up_total,        \* pinecone_upsert: total
  upserts          \* the vectors argument of every index.upsert call, in order

upsertVars == <<up_pc, up_chunks, up_i, up_batch, up_total, upserts>>

vars == <<chunkVars, retrVars, scoreVars, statsVars, embedVars, batchVars, connVars,
          pollVars, tableVars,
          flatVars, retryVars, promptVars, normVars, packVars, upsertVars>>

\* What the chunker's actions leave alone.
chunkOthers == <<retrVars, scoreVars, statsVars, embedVars, batchVars, connVars,
                 pollVars, tableVars,
          flatVars, retryVars, promptVars, normVars, packVars, upsertVars>>

\* What the actions of ask leave alone.
retrOthers == <<chunkVars, scoreVars, statsVars, embedVars, batchVars, connVars,
                pollVars, tableVars,
          flatVars, retryVars, promptVars, normVars, packVars, upsertVars>>

\* What the scorer's actions leave alone.
scoreOthers == <<chunkVars, retrVars, statsVars, embedVars, batchVars, connVars,
                 pollVars, tableVars,
          flatVars, retryVars, promptVars, normVars, packVars, upsertVars>>

statsOthers == <<chunkVars, retrVars, scoreVars, embedVars, batchVars, connVars,
                 pollVars, tableVars,
          flatVars, retryVars, promptVars, normVars, packVars, upsertVars>>

embedOthers == <<chunkVars, retrVars, scoreVars, statsVars, batchVars, connVars,
                 pollVars, tableVars,
          flatVars, retryVars, promptVars, normVars, packVars, upsertVars>>

batchOthers == <<chunkVars, retrVars, scoreVars, statsVars, embedVars, connVars,
                 pollVars, tableVars,
          flatVars, retryVars, promptVars, normVars, packVars, upsertVars>>

connOthers == <<chunkVars, retrVars, scoreVars, statsVars, embedVars, batchVars,
                pollVars, tableVars,
          flatVars, retryVars, promptVars, normVars, packVars, upsertVars>>

pollOthers == <<chunkVars, retrVars, scoreVars, statsVars, embedVars, batchVars,
                connVars, tableVars,
          flatVars, retryVars, promptVars, normVars, packVars, upsertVars>>

tableOthers == <<chunkVars, retrVars, scoreVars, statsVars, embedVars, batchVars,
                 connVars, pollVars,
          flatVars, retryVars, promptVars, normVars, packVars, upsertVars>>

flatOthers == <<chunkVars, retrVars, scoreVars, statsVars, embedVars, batchVars, connVars,
          pollVars, tableVars,
          retryVars, promptVars, normVars, packVars, upsertVars>>

retryOthers == <<chunkVars, retrVars, scoreVars, statsVars, embedVars, batchVars, connVars,
          pollVars, tableVars,
          flatVars, promptVars, normVars, packVars, upsertVars>>

promptOthers == <<chunkVars, retrVars, scoreVars, statsVars, embedVars, batchVars, connVars,
          pollVars, tableVars,
          flatVars, retryVars, normVars, packVars, upsertVars>>

normOthers == <<chunkVars, retrVars, scoreVars, statsVars, embedVars, batchVars, connVars,
          pollVars, tableVars,
          flatVars, retryVars, promptVars, packVars, upsertVars>>

packOthers == <<chunkVars, retrVars, scoreVars, statsVars, embedVars, batchVars, connVars,
          pollVars, tableVars,
          flatVars, retryVars, promptVars, normVars, upsertVars>>

upsertOthers == <<chunkVars, retrVars, scoreVars, statsVars, embedVars, batchVars, connVars,
          pollVars, tableVars,
          flatVars, retryVars, promptVars, normVars, packVars>>

\* The components that are not running, each in the state before its first call.
ChunkAtRest ==
  /\ CHUNK_SIZE = 1
  /\ CHUNK_OVERLAP = 0
  /\ normalized = [doc_id |-> "doc", pages |-> <<>>]
  /\ pc = "done"
  /\ pi = 1
  /\ ti = 0
  /\ caller = "text"
  /\ sw_in = <<>>
  /\ sw_k = 1
  /\ sw_i = 0
  /\ sw_prev = -1
  /\ sw_out = <<>>
  /\ chunks = <<>>
  /\ run = 2
  /\ first_ids = <<>>

RetrAtRest ==
  /\ ENABLE_RERANK = TRUE
  /\ RERANK_TOP_N = 1
  /\ RETRIEVAL_K = 1
  /\ _cohere_client = "None"
  /\ apc = "idle"
  /\ req_k = 1
  /\ index_queries = <<>>
  /\ fetched = <<>>
  /\ matches = <<>>
  /\ rerank_calls = <<>>
  /\ rerank_response = <<>>
  /\ rerank_raised = "none"
  /\ failed_at = "none"
  /\ citations = <<>>

ScoreAtRest ==
  /\ spc = "done"
  /\ examples_seen = 0
  /\ cur_E = {}
  /\ cur_R = {}
  /\ total_precision = <<0, 1>>
  /\ total_recall = <<0, 1>>
  /\ count = 0
  /\ metrics = [citation_precision |-> <<0, 1>>, citation_recall |-> <<0, 1>>,
                citation_f1 |-> <<0, 1>>]
  /\ scores = <<>>

StatsAtRest ==
  /\ st_pc = "done"
  /\ seen_scores = <<>>
  /\ rerank_scores = <<>>
  /\ has_scores = FALSE
  /\ stats = [has_rerank_scores |-> FALSE]

EmbedAtRest ==
  /\ EMBEDDING_MODEL = <<"cohere", ".", "embed", "-", "multilingual", "-", "v3">>
  /\ em_texts = <<>>
  /\ em_langs = <<>>
  /\ em_pc = "done"
  /\ em_j = 1
  /\ tx = <<>>
  /\ translate_calls = <<>>
  /\ handed = <<>>

BatchAtRest ==
  /\ cb_pc = "done"
  /\ cb_texts = <<>>
  /\ cb_i = 0
  /\ cb_batches = <<>>
  /\ all_embeddings = <<>>

ConnAtRest ==
  /\ _pinecone_cached = 0
  /\ th_pc = <<>>
  /\ th_obj = <<>>
  /\ th_ret = <<>>
  /\ constructed = 0

PollAtRest ==
  /\ poll_pc = "returned"
  /\ waited = 0
  /\ next_token = FALSE
  /\ status = "SUCCEEDED"
  /\ pages_n = 0

TableAtRest ==
  /\ tb_pc = "done"
  /\ blocks = <<>>
  /\ tables = <<>>

FlatAtRest ==
  /\ fl_pc = "done"
  /\ fl_rows = <<>>
  /\ fl_out = <<>>

RetryAtRest ==
  /\ rt_stage = "done"
  /\ rt_model = "cohere"
  /\ rt_texts = 0
  /\ rt_j = 1
  /\ rt_attempts = [embed |-> 0, rerank |-> 0, translate |-> 0]
  /\ rt_invokes = 0
  /\ rt_degraded = FALSE

PromptAtRest ==
  /\ pr_pc = "done"
  /\ pr_question = <<>>
  /\ pr_contexts = <<>>
  /\ user_prompt = <<>>

NormAtRest ==
  /\ nm_pc = "done"
  /\ textract_pages = <<>>
  /\ all_blocks = <<>>
  /\ pages_out = <<>>

PackAtRest ==
  /\ pk_pc = "done"
  /\ pk_size = 0
  /\ pk_paras = <<>>
  /\ pk_k = 1
  /\ pk_buf = <<>>
  /\ pk_out = <<>>
  /\ pk_groups = <<>>

UpsertAtRest ==
  /\ up_pc = "done"
  /\ up_chunks = <<>>
  /\ up_i = 0
  /\ up_batch = <<>>
  /\ up_total = 0
  /\ upserts = <<>>

\* The components added last, all at rest.
LaterAtRest ==
  /\ FlatAtRest
  /\ RetryAtRest
  /\ PromptAtRest
  /\ NormAtRest
  /\ PackAtRest
  /\ UpsertAtRest

\* ------------------------------------------------------------------ chunker
\* The test of the merge loop without the newline that joins.
fits_without_separator(buf, p, size) == Len(buf) + Len(p) <= size

\* if len(buf) + 1 + len(p) <= CHUNK_SIZE
fits(buf, p, size) == Len(buf) + 1 + Len(p) <= size

\* The merge loop of _split_paragraphs over paras[k..], with buffer buf.
RECURSIVE Pack(_, _, _, _, _)
Pack(paras, k, buf, out, size) ==
  IF k > Len(paras) THEN (IF buf # <<>> THEN Append(out, buf) ELSE out)
  ELSE LET p == paras[k] IN
       IF fits(buf, p, size)
       THEN Pack(paras, k + 1,
                 IF buf # <<>> THEN strip(buf \o <<"\n">> \o p) ELSE p, out, size)
       ELSE Pack(paras, k + 1, p,
                 IF buf # <<>> THEN Append(out, buf) ELSE out, size)

_split_paragraphs(text) ==
  Pack(SelectSeq(StripAll(re_split(text, 1, 1)), NonEmpty), 1, <<>>, <<>>, CHUNK_SIZE)

\* One row of _flatten_table: " | ".join([c.strip() for c in r])
RowLine(r) == join(<<" ", "|", " ">>, StripAll(r))

RECURSIVE FlatLines(_)
FlatLines(rows) ==
  IF rows = <<>> THEN <<>>
  ELSE (IF strip(RowLine(Head(rows))) # <<>>
        THEN << <<"-", " ">> \o RowLine(Head(rows)) >> ELSE <<>>)
       \o FlatLines(Tail(rows))

_flatten_table(rows) == join(<<"\n">>, FlatLines(rows))

\* The id of a text segment without its page number.
TextIdNoPage(doc_id, page_num, i) == doc_id \o "-seg" \o ToString(i)

\* f"{doc_id}-p{page_num}-seg{i}"
TextId(doc_id, page_num, i) ==
  doc_id \o "-p" \o ToString(page_num) \o "-seg" \o ToString(i)

\* f"{doc_id}-p{page_num}-table{ti}-seg{j}"
TableId(doc_id, page_num, t, j) ==
  doc_id \o "-p" \o ToString(page_num) \o "-table" \o ToString(t)
         \o "-seg" \o ToString(j)

Chunk(id, text, doc_id, page, type) ==
  [id |-> id, text |-> text, doc_id |-> doc_id, page |-> page, type |-> type]

\* Text chunks numbered by a counter that runs on over the pages.
TextChunksRunningOrdinal(doc_id, page_num, paras) ==
  [n \in 1..Len(paras) |->
     Chunk(TextId(doc_id, page_num, Len(chunks) + n - 1), paras[n], doc_id,
           page_num, "text")]

\* for i, p in enumerate(paras): chunks.append(Chunk(...))
TextChunks(doc_id, page_num, paras) ==
  [n \in 1..Len(paras) |->
     Chunk(TextId(doc_id, page_num, n - 1), paras[n], doc_id, page_num, "text")]

\* for j, part in enumerate(parts): chunks.append(Chunk(...))
TableChunks(doc_id, page_num, t, parts) ==
  [n \in 1..Len(parts) |->
     Chunk(TableId(doc_id, page_num, t, n - 1), parts[n], doc_id, page_num, "table")]

CurPage == normalized.pages[pi]

\* The step of the while loop without the overlap.
NextStartNoOverlap(i, max_len, overlap) == Max2(0, i + max_len)

\* The step of the while loop: i = max(0, i + max_len - overlap)
NextStart(i, max_len, overlap) == Max2(0, i + max_len - overlap)

\* build_chunks, head of "for page in normalized['pages']": leave the loop, or
\* split the page text into paragraphs and call _sliding_window on them.
PageLoop ==
  /\ pc = "page"
  /\ IF pi > Len(normalized.pages)
     THEN /\ pc' = "done"
          /\ UNCHANGED <<caller, sw_in, sw_k, sw_out>>
     ELSE /\ sw_in' = _split_paragraphs(CurPage.text)
          /\ sw_k' = 1
          /\ sw_out' = <<>>
          /\ caller' = "text"
          /\ pc' = "sw_for"
  /\ UNCHANGED <<CHUNK_SIZE, CHUNK_OVERLAP, normalized, pi, ti, sw_i, sw_prev,
                 chunks, run, first_ids>>
  /\ UNCHANGED chunkOthers

\* _sliding_window, head of "for ch in chunks": return to build_chunks (which
\* appends the Chunks of what was returned), pass a short chunk on, or enter
\* the while loop with i = 0.
SwFor ==
  /\ pc = "sw_for"
  /\ IF sw_k > Len(sw_in)
     THEN /\ IF caller = "text"
             THEN /\ chunks' = chunks \o TextChunks(normalized.doc_id, CurPage.page, sw_out)
                  /\ ti' = 0
             ELSE /\ chunks' = chunks \o TableChunks(normalized.doc_id, CurPage.page, ti, sw_out)
                  /\ ti' = ti + 1
          /\ pc' = "table"
          /\ UNCHANGED <<sw_k, sw_i, sw_prev, sw_out>>
     ELSE IF Len(sw_in[sw_k]) <= CHUNK_SIZE
     THEN /\ sw_out' = Append(sw_out, sw_in[sw_k])
          /\ sw_k' = sw_k + 1
          /\ UNCHANGED <<pc, sw_i, sw_prev, chunks, ti>>
     ELSE /\ sw_i' = 0
          /\ sw_prev' = -1
          /\ pc' = "sw_while"
          /\ UNCHANGED <<sw_k, sw_out, chunks, ti>>
  /\ UNCHANGED <<CHUNK_SIZE, CHUNK_OVERLAP, normalized, pi, caller, sw_in,
                 run, first_ids>>
  /\ UNCHANGED chunkOthers

\* _sliding_window, one iteration of "while i < len(ch)".
SwWhile ==
  /\ pc = "sw_while"
  /\ Len(sw_out) < MaxOut
  /\ LET ch == sw_in[sw_k] IN
     IF sw_i < Len(ch)
     THEN /\ sw_out' = Append(sw_out, Slice(ch, sw_i, sw_i + CHUNK_SIZE))
          /\ sw_prev' = sw_i
          /\ IF sw_i + CHUNK_SIZE >= Len(ch)
             THEN /\ sw_k' = sw_k + 1
                  /\ pc' = "sw_for"
                  /\ UNCHANGED sw_i
             ELSE /\ sw_i' = NextStart(sw_i, CHUNK_SIZE, CHUNK_OVERLAP)
                  /\ UNCHANGED <<sw_k, pc>>
     ELSE /\ sw_k' = sw_k + 1
          /\ pc' = "sw_for"
          /\ UNCHANGED <<sw_i, sw_prev, sw_out>>
  /\ UNCHANGED <<CHUNK_SIZE, CHUNK_OVERLAP, normalized, pi, ti, caller, sw_in,
                 chunks, run, first_ids>>
  /\ UNCHANGED chunkOthers

\* build_chunks, head of "for ti, tbl in enumerate(page.get('tables', []) or [])":
\* go to the next page, skip a table that flattens to nothing, or call
\* _sliding_window on the flattened table.
TableLoop ==
  /\ pc = "table"
  /\ IF ti >= Len(CurPage.tables)
     THEN /\ pi' = pi + 1
          /\ pc' = "page"
          /\ UNCHANGED <<ti, caller, sw_in, sw_k, sw_out>>
     ELSE LET flat == _flatten_table(CurPage.tables[ti + 1].rows) IN
          IF strip(flat) # <<>>
          THEN /\ sw_in' = <<flat>>
               /\ sw_k' = 1
               /\ sw_out' = <<>>
               /\ caller' = "table"
               /\ pc' = "sw_for"
               /\ UNCHANGED <<pi, ti>>
          ELSE /\ ti' = ti + 1
               /\ UNCHANGED <<pi, pc, caller, sw_in, sw_k, sw_out>>
  /\ UNCHANGED <<CHUNK_SIZE, CHUNK_OVERLAP, normalized, sw_i, sw_prev, chunks,
                 run, first_ids>>
  /\ UNCHANGED chunkOthers

Ids(cs) == [n \in 1..Len(cs) |-> cs[n].id]

\* build_chunks has returned; the indexer is run again on the same document.
Rerun ==
  /\ pc = "done"
  /\ run = 1
  /\ run' = 2
  /\ first_ids' = Ids(chunks)
  /\ chunks' = <<>>
  /\ pi' = 1
  /\ pc' = "page"
  /\ UNCHANGED <<CHUNK_SIZE, CHUNK_OVERLAP, normalized, ti, caller, sw_in, sw_k,
                 sw_i, sw_prev, sw_out>>
  /\ UNCHANGED chunkOthers

\* ---- the documents build_chunks is run on
Texts(n) == UNION {[1..k -> Chars] : k \in 0..n}

BlankTable == [rows |-> << <<<<" ">>>> >>]

WideTable == [rows |-> << <<<<"a">>, <<>>>> >>]

TableLists == {<<>>, <<BlankTable, WideTable>>}

\* Page lists of exactly n pages, numbered from first, with at most budget
\* characters of text in all.
RECURSIVE PageLists(_, _, _)
PageLists(n, first, budget) ==
  IF n = 0 THEN {<<>>}
  ELSE UNION {
         {<<[page |-> first, text |-> t, tables |-> tb]>> \o rest :
            tb \in TableLists, rest \in PageLists(n - 1, first + 1, budget - Len(t))}
         : t \in Texts(budget)}

Docs == {[doc_id |-> "doc", pages |-> ps] :
           ps \in UNION {PageLists(n, 1, MaxText) : n \in 1..MaxPages}}

ChunkInit ==
  /\ CHUNK_SIZE \in 0..MaxChunk
  /\ CHUNK_OVERLAP \in 0..MaxChunk
  /\ normalized \in Docs
  /\ pc = "page"
  /\ pi = 1
  /\ ti = 0
  /\ caller = "text"
  /\ sw_in = <<>>
  /\ sw_k = 1
  /\ sw_i = 0
  /\ sw_prev = -1
  /\ sw_out = <<>>
  /\ chunks = <<>>
  /\ run = 1
  /\ first_ids = <<>>
  \* the API at rest
  /\ ENABLE_RERANK = TRUE
  /\ RERANK_TOP_N = 1
  /\ RETRIEVAL_K = 1
  /\ _cohere_client = "None"
  /\ apc = "idle"
  /\ req_k = 1
  /\ index_queries = <<>>
  /\ fetched = <<>>
  /\ matches = <<>>
  /\ rerank_calls = <<>>
  /\ rerank_response = <<>>
  /\ rerank_raised = "none"
  /\ failed_at = "none"
  /\ citations = <<>>
  \* the scorer at rest
  /\ spc = "done"
  /\ examples_seen = 0
  /\ cur_E = {}
  /\ cur_R = {}
  /\ total_precision = <<0, 1>>
  /\ total_recall = <<0, 1>>
  /\ count = 0
  /\ metrics = [citation_precision |-> <<0, 1>>, citation_recall |-> <<0, 1>>,
                citation_f1 |-> <<0, 1>>]
  /\ scores = <<>>
  /\ StatsAtRest
  /\ EmbedAtRest
  /\ BatchAtRest
  /\ ConnAtRest
  /\ PollAtRest
  /\ TableAtRest
  /\ LaterAtRest

ChunkNext == PageLoop \/ SwFor \/ SwWhile \/ TableLoop \/ Rerun

SpecChunk == ChunkInit /\ [][ChunkNext]_vars

\* ------------------------------------------------------------------ retrieval (ask)
\* A rerank score that is absent (None), and one that is present.
None == <<>>

Some(x) == <<x>>

\* Relevance scores the reranker gives.
Scores == {0, 1}

\* The n matches of a query response in similarity order; all are dicts or
\* all are objects with a metadata attribute.
Matches(n, dict) == [j \in 1..n |-> [idx |-> j - 1, dict |-> dict, rerank_score |-> None]]

\* retrieval_k always taken from RETRIEVAL_K.
retrieval_k_always_overfetch(k) == RETRIEVAL_K

\* retrieval_k = RETRIEVAL_K if ENABLE_RERANK else inp.k
retrieval_k(k) == IF ENABLE_RERANK THEN RETRIEVAL_K ELSE k

\* Reranking whenever there are matches, enabled or not.
should_rerank_ignoring_flag(ms) == Len(ms) > 0

\* if ENABLE_RERANK and len(matches) > 0
should_rerank(ms) == ENABLE_RERANK /\ Len(ms) > 0

\* The fallback returning all matches.
fallback_all(ms, top_n) == ms

\* matches[:top_n] for top_n >= 0
fallback(ms, top_n) == Slice(ms, 0, top_n)

\* The loop "for result in rerank_response.results" from result j on: ms are
\* the matches (dict matches are updated in place), out is reranked_matches.
\* raised: matches[original_index] raised IndexError.
RECURSIVE apply_results(_, _, _, _)
apply_results(ms, results, j, out) ==
  IF j > Len(results) THEN [raised |-> FALSE, matches |-> ms, out |-> out]
  ELSE LET r == results[j] IN
       IF r.index >= Len(ms) THEN [raised |-> TRUE, matches |-> ms, out |-> out]
       ELSE LET m == ms[r.index + 1]
                scored == [idx |-> m.idx, dict |-> TRUE,
                           rerank_score |-> Some(r.relevance_score)]
            IN IF m.dict
               THEN apply_results([ms EXCEPT ![r.index + 1] = scored], results, j + 1,
                                  Append(out, scored))
               ELSE apply_results(ms, results, j + 1, Append(out, scored))

\* The responses of the reranker for n documents: up to MaxResults results
\* with pairwise distinct indices; the index n is out of range.
RerankResponses(n) ==
  {r \in UNION {[1..m -> [index : 0..n, relevance_score : Scores]] : m \in 0..MaxResults} :
     \A a, b \in 1..Len(r) : a # b => r[a].index # r[b].index}

\* cites.append({... "rerank_score": m.get("rerank_score") if dict else None})
Cites(ms) ==
  [j \in 1..Len(ms) |->
     [idx |-> ms[j].idx,
      rerank_score |-> IF ms[j].dict THEN ms[j].rerank_score ELSE None]]

\* POST /ask arrives with inp.k = k.
AskBegin ==
  /\ apc \in {"idle", "responded", "raised"}
  /\ \E k \in 1..MaxK : req_k' = k
  /\ apc' = "query"
  /\ index_queries' = <<>>
  /\ fetched' = <<>>
  /\ matches' = <<>>
  /\ rerank_calls' = <<>>
  /\ rerank_response' = <<>>
  /\ rerank_raised' = "none"
  /\ failed_at' = "none"
  /\ citations' = <<>>
  /\ UNCHANGED <<ENABLE_RERANK, RERANK_TOP_N, RETRIEVAL_K, _cohere_client>>
  /\ UNCHANGED retrOthers

\* ask, step 1: pinecone_query raises before the index is queried
\* (pinecone_connect, embed_texts).
PineconeQueryRaises ==
  /\ apc = "query"
  /\ apc' = "raised"
  /\ failed_at' = "query"
  /\ UNCHANGED <<ENABLE_RERANK, RERANK_TOP_N, RETRIEVAL_K, _cohere_client, req_k,
                 index_queries, fetched, matches, rerank_calls, rerank_response,
                 rerank_raised, citations>>
  /\ UNCHANGED retrOthers

\* ask, step 1: idx.query(top_k = retrieval_k) answers with n matches, and
\* step 2 decides whether to rerank.
PineconeQuery ==
  /\ apc = "query"
  /\ index_queries' = Append(index_queries, retrieval_k(req_k))
  /\ \E n \in 0..MaxFetch, dict \in BOOLEAN :
       /\ fetched' = Matches(n, dict)
       /\ matches' = Matches(n, dict)
       /\ apc' = IF should_rerank(Matches(n, dict)) THEN "rerank" ELSE "answer"
  /\ UNCHANGED <<ENABLE_RERANK, RERANK_TOP_N, RETRIEVAL_K, _cohere_client, req_k,
                 rerank_calls, rerank_response, rerank_raised, failed_at, citations>>
  /\ UNCHANGED retrOthers

\* rerank_results, client = get_cohere_client(): the cached client, a new
\* client, or HTTPException(500) when the secret is missing; the call is not
\* inside the try block, so the exception leaves ask.
GetCohereClient ==
  /\ apc = "rerank"
  /\ IF _cohere_client # "None"
     THEN /\ apc' = "rerank_call"
          /\ UNCHANGED <<_cohere_client, rerank_raised, failed_at>>
     ELSE \/ /\ _cohere_client' = "client"
             /\ apc' = "rerank_call"
             /\ UNCHANGED <<rerank_raised, failed_at>>
          \/ /\ rerank_raised' = "client"
             /\ failed_at' = "rerank"
             /\ apc' = "raised"
             /\ UNCHANGED _cohere_client
  /\ UNCHANGED <<ENABLE_RERANK, RERANK_TOP_N, RETRIEVAL_K, req_k, index_queries,
                 fetched, matches, rerank_calls, rerank_response, citations>>
  /\ UNCHANGED retrOthers

\* rerank_results, the try block: client.rerank(top_n = top_n) raises, and
\* the except branch returns matches[:top_n].
RerankCallRaises ==
  /\ apc = "rerank_call"
  /\ rerank_calls' = Append(rerank_calls, RERANK_TOP_N)
  /\ rerank_raised' = "call"
  /\ matches' = fallback(matches, RERANK_TOP_N)
  /\ apc' = "answer"
  /\ UNCHANGED <<ENABLE_RERANK, RERANK_TOP_N, RETRIEVAL_K, _cohere_client, req_k,
                 index_queries, fetched, rerank_response, failed_at, citations>>
  /\ UNCHANGED retrOthers

\* rerank_results, the try block: client.rerank answers and its results are
\* applied; an IndexError on the way is caught and matches[:top_n] returned.
RerankCall ==
  /\ apc = "rerank_call"
  /\ rerank_calls' = Append(rerank_calls, RERANK_TOP_N)
  /\ \E resp \in RerankResponses(Len(matches)) :
       LET a == apply_results(matches, resp, 1, <<>>) IN
       /\ rerank_response' = resp
       /\ rerank_raised' = IF a.raised THEN "apply" ELSE "none"
       /\ matches' = IF a.raised THEN fallback(a.matches, RERANK_TOP_N) ELSE a.out
  /\ apc' = "answer"
  /\ UNCHANGED <<ENABLE_RERANK, RERANK_TOP_N, RETRIEVAL_K, _cohere_client, req_k,
                 index_queries, fetched, failed_at, citations>>
  /\ UNCHANGED retrOthers

\* ask, steps 3 to 5: claude_chat (or the translation of the answer) raises.
AnswerRaises ==
  /\ apc = "answer"
  /\ apc' = "raised"
  /\ failed_at' = "llm"
  /\ UNCHANGED <<ENABLE_RERANK, RERANK_TOP_N, RETRIEVAL_K, _cohere_client, req_k,
                 index_queries, fetched, matches, rerank_calls, rerank_response,
                 rerank_raised, citations>>
  /\ UNCHANGED retrOthers

\* ask, steps 3 to 7: the answer is generated and the citations of matches
\* are returned.
AskRespond ==
  /\ apc = "answer"
  /\ citations' = Cites(matches)
  /\ apc' = "responded"
  /\ UNCHANGED <<ENABLE_RERANK, RERANK_TOP_N, RETRIEVAL_K, _cohere_client, req_k,
                 index_queries, fetched, matches, rerank_calls, rerank_response,
                 rerank_raised, failed_at>>
  /\ UNCHANGED retrOthers

RetrInit ==
  /\ ENABLE_RERANK \in BOOLEAN
  /\ RERANK_TOP_N \in 0..MaxK
  /\ RETRIEVAL_K \in 1..MaxFetch
  /\ _cohere_client = "None"
  /\ apc = "idle"
  /\ req_k = 1
  /\ index_queries = <<>>
  /\ fetched = <<>>
  /\ matches = <<>>
  /\ rerank_calls = <<>>
  /\ rerank_response = <<>>
  /\ rerank_raised = "none"
  /\ failed_at = "none"
  /\ citations = <<>>
  \* the chunker at rest
  /\ CHUNK_SIZE = 1
  /\ CHUNK_OVERLAP = 0
  /\ normalized = [doc_id |-> "doc", pages |-> <<>>]
  /\ pc = "done"
  /\ pi = 1
  /\ ti = 0
  /\ caller = "text"
  /\ sw_in = <<>>
  /\ sw_k = 1
  /\ sw_i = 0
  /\ sw_prev = -1
  /\ sw_out = <<>>
  /\ chunks = <<>>
  /\ run = 2
  /\ first_ids = <<>>
  \* the scorer at rest
  /\ spc = "done"
  /\ examples_seen = 0
  /\ cur_E = {}
  /\ cur_R = {}
  /\ total_precision = <<0, 1>>
  /\ total_recall = <<0, 1>>
  /\ count = 0
  /\ metrics = [citation_precision |-> <<0, 1>>, citation_recall |-> <<0, 1>>,
                citation_f1 |-> <<0, 1>>]
  /\ scores = <<>>
  /\ StatsAtRest
  /\ EmbedAtRest
  /\ BatchAtRest
  /\ ConnAtRest
  /\ PollAtRest
  /\ TableAtRest
  /\ LaterAtRest

RetrNext ==
  \/ AskBegin
  \/ PineconeQueryRaises
  \/ PineconeQuery
  \/ GetCohereClient
  \/ RerankCallRaises
  \/ RerankCall
  \/ AnswerRaises
  \/ AskRespond

SpecRetrieve == RetrInit /\ [][RetrNext]_vars

\* ------------------------------------------------------------------ citation scorer
\* Rates are exact fractions <<numerator, denominator>> in lowest terms (the
\* code computes them in floating point).
RECURSIVE GCD(_, _)
GCD(a, b) == IF b = 0 THEN a ELSE GCD(b, a % b)

Frac(n, d) == IF n = 0 THEN <<0, 1>> ELSE <<n \div GCD(n, d), d \div GCD(n, d)>>

FAdd(x, y) == Frac(x[1] * y[2] + y[1] * x[2], x[2] * y[2])

FMul(x, y) == Frac(x[1] * y[1], x[2] * y[2])

\* x / y for y > 0
FDiv(x, y) == Frac(x[1] * y[2], x[2] * y[1])

FInt(n) == <<n, 1>>

\* The (doc_id, page) citations of the evaluated corpus.
Pairs == {<<"d", 1>>, <<"d", 2>>}

\* f"{doc_id}:{page}"
CiteString(doc_id, page) == doc_id \o ":" \o ToString(page)

\* A string given as its tokens (citation texts, "," and " "), as one string.
RECURSIVE Concat(_)
Concat(tokens) == IF tokens = <<>> THEN "" ELSE Head(tokens) \o Concat(Tail(tokens))

\* str.split(","): the token runs between the commas, from token k on.
RECURSIVE split_comma(_, _, _)
split_comma(tokens, k, cur) ==
  IF k > Len(tokens) THEN <<cur>>
  ELSE IF tokens[k] = "," THEN <<cur>> \o split_comma(tokens, k + 1, <<>>)
  ELSE split_comma(tokens, k + 1, Append(cur, tokens[k]))

\* The parse without cite.strip().
parse_expected_unstripped(str) ==
  LET parts == split_comma(str, 1, <<>>)
  IN {Concat(parts[j]) : j \in 1..Len(parts)}

\* set(cite.strip() for cite in expected_citations_str.split(","))
parse_expected(str) ==
  LET parts == split_comma(str, 1, <<>>)
  IN {Concat(strip(parts[j])) : j \in 1..Len(parts)}

\* The returned set: f"{doc_id}:{page}" of every citation with a doc_id and a page.
returned_set(response) ==
  {CiteString(response.citations[j].doc_id, response.citations[j].page) :
     j \in {i \in 1..Len(response.citations) :
              response.citations[i].doc_id # "" /\ response.citations[i].page # 0}}

\* Precision with the denominators mixed up.
precision_over_expected(expected, returned) ==
  IF returned # {} THEN Frac(Cardinality(expected \cap returned), Cardinality(expected))
  ELSE FInt(0)

\* precision = len(expected & returned) / len(returned) if returned else 0.0
precision_of(expected, returned) ==
  IF returned # {} THEN Frac(Cardinality(expected \cap returned), Cardinality(returned))
  ELSE FInt(0)

\* recall = len(expected & returned) / len(expected) if expected else 0.0
recall_of(expected, returned) ==
  IF expected # {} THEN Frac(Cardinality(expected \cap returned), Cardinality(expected))
  ELSE FInt(0)

\* The expected_citations cell of a golden row that lists cites: the
\* citations separated by commas, with or without blanks around them.
RECURSIVE RenderCites(_, _)
RenderCites(cites, pad) ==
  IF cites = <<>> THEN <<>>
  ELSE LET one == IF pad THEN <<" ", CiteString(Head(cites)[1], Head(cites)[2]), " ">>
                  ELSE <<CiteString(Head(cites)[1], Head(cites)[2])>>
       IN IF Len(cites) = 1 THEN one ELSE one \o <<",">> \o RenderCites(Tail(cites), pad)

CiteLists == UNION {[1..n -> Pairs] : n \in 0..MaxCites}

\* The golden rows: the expected_citations cell as written, and the citation
\* set it denotes.
GoldenRows ==
  {[expected_citations |-> RenderCites(l, pad), gold |-> {l[j] : j \in 1..Len(l)}] :
     l \in CiteLists, pad \in BOOLEAN}
  \cup {[expected_citations |-> <<" ">>, gold |-> {}]}

\* The citations of a response: a doc_id or none (""), a page or none (0).
ResponseCites == {[doc_id |-> c[1], page |-> c[2]] : c \in Pairs \cup {<<"", 1>>, <<"d", 0>>}}

Responses == {[citations |-> cs] : cs \in UNION {[1..n -> ResponseCites] : n \in 0..MaxCites}}

\* The returned citation set of a response, as (docId, page) values.
ReturnedPairs(response) ==
  {<<response.citations[j].doc_id, response.citations[j].page>> :
     j \in {i \in 1..Len(response.citations) :
              response.citations[i].doc_id # "" /\ response.citations[i].page # 0}}

\* calculate_citation_metrics, one iteration of "for golden, response in zip(...)".
ScoreExample ==
  /\ spc = "loop"
  /\ examples_seen < MaxExamples
  /\ \E golden \in GoldenRows :
       LET expected == parse_expected(golden.expected_citations) IN
       \E response \in Responses :
         LET returned == returned_set(response)
             skipped == \/ golden.expected_citations = <<>>
                        \/ (expected = {} /\ returned = {})
         IN /\ cur_E' = golden.gold
            /\ cur_R' = ReturnedPairs(response)
            /\ IF skipped
               THEN UNCHANGED <<total_precision, total_recall, count, scores>>
               ELSE /\ total_precision' = FAdd(total_precision, precision_of(expected, returned))
                    /\ total_recall' = FAdd(total_recall, recall_of(expected, returned))
                    /\ count' = count + 1
                    /\ scores' = Append(scores, <<precision_of(expected, returned),
                                                  recall_of(expected, returned)>>)
  /\ examples_seen' = examples_seen + 1
  /\ UNCHANGED <<spc, metrics>>
  /\ UNCHANGED scoreOthers

\* F1 as the plain mean of the two rates.
f1_arithmetic(avg_precision, avg_recall) ==
  FDiv(FAdd(avg_precision, avg_recall), FInt(2))

\* f1 = 2 * (avg_precision * avg_recall) / (avg_precision + avg_recall)
\*      if (avg_precision + avg_recall) > 0 else 0.0
f1_of(avg_precision, avg_recall) ==
  IF FAdd(avg_precision, avg_recall)[1] > 0
  THEN FDiv(FMul(FInt(2), FMul(avg_precision, avg_recall)), FAdd(avg_precision, avg_recall))
  ELSE FInt(0)

\* calculate_citation_metrics after the loop: the averages and their F1.
ScoreFinish ==
  /\ spc = "loop"
  /\ IF count = 0
     THEN metrics' = [citation_precision |-> FInt(0), citation_recall |-> FInt(0),
                      citation_f1 |-> FInt(0)]
     ELSE LET avg_precision == FDiv(total_precision, FInt(count))
              avg_recall == FDiv(total_recall, FInt(count))
          IN metrics' = [citation_precision |-> avg_precision,
                         citation_recall |-> avg_recall,
                         citation_f1 |-> f1_of(avg_precision, avg_recall)]
  /\ spc' = "done"
  /\ UNCHANGED <<examples_seen, cur_E, cur_R, total_precision, total_recall,
                 count, scores>>
  /\ UNCHANGED scoreOthers

ScoreInit ==
  /\ spc = "loop"
  /\ examples_seen = 0
  /\ cur_E = {}
  /\ cur_R = {}
  /\ total_precision = <<0, 1>>
  /\ total_recall = <<0, 1>>
  /\ count = 0
  /\ metrics = [citation_precision |-> <<0, 1>>, citation_recall |-> <<0, 1>>,
                citation_f1 |-> <<0, 1>>]
  /\ scores = <<>>
  \* the chunker at rest
  /\ CHUNK_SIZE = 1
  /\ CHUNK_OVERLAP = 0
  /\ normalized = [doc_id |-> "doc", pages |-> <<>>]
  /\ pc = "done"
  /\ pi = 1
  /\ ti = 0
  /\ caller = "text"
  /\ sw_in = <<>>
  /\ sw_k = 1
  /\ sw_i = 0
  /\ sw_prev = -1
  /\ sw_out = <<>>
  /\ chunks = <<>>
  /\ run = 2
  /\ first_ids = <<>>
  \* the API at rest
  /\ ENABLE_RERANK = TRUE
  /\ RERANK_TOP_N = 1
  /\ RETRIEVAL_K = 1
  /\ _cohere_client = "None"
  /\ apc = "idle"
  /\ req_k = 1
  /\ index_queries = <<>>
  /\ fetched = <<>>
  /\ matches = <<>>
  /\ rerank_calls = <<>>
  /\ rerank_response = <<>>
  /\ rerank_raised = "none"
  /\ failed_at = "none"
  /\ citations = <<>>
  /\ StatsAtRest
  /\ EmbedAtRest
  /\ BatchAtRest
  /\ ConnAtRest
  /\ PollAtRest
  /\ TableAtRest
  /\ LaterAtRest

ScoreNext == ScoreExample \/ ScoreFinish

SpecScore == ScoreInit /\ [][ScoreNext]_vars

\* ------------------------------------------------------------------ rerank-score statistics
\* The rerank scores a citation can carry.
StatScores == {0, 1, 2}

\* The presence test as a truth test: a score of 0 counts as absent.
is_present_truthy(score) == score # None /\ score[1] # 0

\* if score is not None
is_present(score) == score # None

RECURSIVE SumSeq(_)
SumSeq(seq) == IF seq = <<>> THEN 0 ELSE Head(seq) + SumSeq(Tail(seq))

\* x put at its place in the ascending sequence seq
RECURSIVE Insert(_, _)
Insert(x, seq) ==
  IF seq = <<>> THEN <<x>>
  ELSE IF x <= Head(seq) THEN <<x>> \o seq
  ELSE <<Head(seq)>> \o Insert(x, Tail(seq))

\* sorted(rerank_scores)
RECURSIVE sorted(_)
sorted(seq) == IF seq = <<>> THEN <<>> ELSE Insert(Head(seq), sorted(Tail(seq)))

\* The values of a sequence.
Range(seq) == {seq[j] : j \in 1..Len(seq)}

\* analyze_reranker_metrics, one iteration of the inner loop: the next citation
\* of the responses, with a rerank_score or without.
StatCitation ==
  /\ st_pc = "loop"
  /\ Len(seen_scores) < MaxStatCites
  /\ \E score \in {None} \cup {Some(x) : x \in StatScores} :
       /\ seen_scores' = Append(seen_scores, score)
       /\ IF is_present(score)
          THEN /\ has_scores' = TRUE
               /\ rerank_scores' = Append(rerank_scores, score[1])
          ELSE UNCHANGED <<has_scores, rerank_scores>>
  /\ UNCHANGED <<st_pc, stats>>
  /\ UNCHANGED statsOthers

\* analyze_reranker_metrics after the loops.
StatFinish ==
  /\ st_pc = "loop"
  /\ IF ~has_scores \/ rerank_scores = <<>>
     THEN stats' = [has_rerank_scores |-> FALSE,
                    message |-> "No rerank scores found in responses"]
     ELSE LET sorted_scores == sorted(rerank_scores)
              n == Len(sorted_scores)
          IN stats' = [has_rerank_scores |-> TRUE,
                       num_scored_citations |-> Len(rerank_scores),
                       avg_rerank_score |-> Frac(SumSeq(rerank_scores), n),
                       min_rerank_score |-> SetMin(Range(rerank_scores)),
                       max_rerank_score |-> SetMax(Range(rerank_scores)),
                       median_rerank_score |-> sorted_scores[(n \div 2) + 1],
                       q1_rerank_score |-> sorted_scores[(n \div 4) + 1],
                       q3_rerank_score |-> sorted_scores[((3 * n) \div 4) + 1]]
  /\ st_pc' = "done"
  /\ UNCHANGED <<seen_scores, rerank_scores, has_scores>>
  /\ UNCHANGED statsOthers

StatsInit ==
  /\ st_pc = "loop"
  /\ seen_scores = <<>>
  /\ rerank_scores = <<>>
  /\ has_scores = FALSE
  /\ stats = [has_rerank_scores |-> FALSE]
  /\ ChunkAtRest
  /\ RetrAtRest
  /\ ScoreAtRest
  /\ EmbedAtRest
  /\ BatchAtRest
  /\ ConnAtRest
  /\ PollAtRest
  /\ TableAtRest
  /\ LaterAtRest

StatsNext == StatCitation \/ StatFinish

SpecStats == StatsInit /\ [][StatsNext]_vars

\* ------------------------------------------------------------------ embedding pivot
\* embed_texts of the indexer and of the API are the same code; the line
\* numbers are the indexer's.
\* Model ids in lower case, as the words and separators they are made of.
Models ==
  {<<"cohere", ".", "embed", "-", "multilingual", "-", "v3">>,
   <<"cohere", ".", "embed", "-", "english", "-", "v3">>,
   <<"amazon", ".", "titan", "-", "embed", "-", "text", "-", "v1">>}

\* word in model
Contains(model, word) == \E j \in 1..Len(model) : model[j] = word

\* A language tag is None or Some(its characters).
LangTags ==
  {None, Some(<<>>), Some(<<"e", "n">>), Some(<<"f", "r">>),
   Some(<<"f", "r", "-", "C", "A">>), Some(<<"e", "s">>)}

\* str.startswith
startswith(str, prefix) ==
  Len(str) >= Len(prefix) /\ SubSeq(str, 1, Len(prefix)) = prefix

\* The pivot applied whatever the model.
is_monolingual_always(model) == TRUE

\* "titan" in model or "english" in model
is_monolingual(model) == Contains(model, "titan") \/ Contains(model, "english")

\* The pivot applied to every tag that is not English.
needs_translation_non_en(lg) ==
  lg # None /\ lg[1] # <<>> /\ ~startswith(lg[1], <<"e", "n">>)

\* lg and lg.startswith("fr")
needs_translation(lg) == lg # None /\ lg[1] # <<>> /\ startswith(lg[1], <<"f", "r">>)

\* r["TranslatedText"] for Text = t
Translated(t) == t \o "/en"

\* langs is None, or Some(list), and the test "and langs" is its truth value.
truthy_list(l) == l # None /\ l[1] # <<>>

\* embed_texts up to the zip loop; without the pivot the texts go to the
\* provider as they are.
EmbedBegin ==
  /\ em_pc = "start"
  /\ IF is_monolingual(EMBEDDING_MODEL) /\ truthy_list(em_langs)
     THEN /\ em_pc' = "zip"
          /\ UNCHANGED handed
     ELSE /\ em_pc' = "done"
          /\ handed' = em_texts
  /\ UNCHANGED <<EMBEDDING_MODEL, em_texts, em_langs, em_j, tx, translate_calls>>
  /\ UNCHANGED embedOthers

\* One iteration of "for t, lg in zip(texts, langs)" whose translate_text
\* call, if any, returns.
ZipStep ==
  /\ em_pc = "zip"
  /\ em_j <= Min2(Len(em_texts), Len(em_langs[1]))
  /\ IF needs_translation(em_langs[1][em_j])
     THEN /\ translate_calls' = Append(translate_calls, em_texts[em_j])
          /\ tx' = Append(tx, Translated(em_texts[em_j]))
     ELSE /\ tx' = Append(tx, em_texts[em_j])
          /\ UNCHANGED translate_calls
  /\ em_j' = em_j + 1
  /\ UNCHANGED <<EMBEDDING_MODEL, em_texts, em_langs, em_pc, handed>>
  /\ UNCHANGED embedOthers

\* An iteration whose translate_text call raises.
ZipTranslateRaises ==
  /\ em_pc = "zip"
  /\ em_j <= Min2(Len(em_texts), Len(em_langs[1]))
  /\ needs_translation(em_langs[1][em_j])
  /\ translate_calls' = Append(translate_calls, em_texts[em_j])
  /\ em_pc' = "raised"
  /\ UNCHANGED <<EMBEDDING_MODEL, em_texts, em_langs, em_j, tx, handed>>
  /\ UNCHANGED embedOthers

\* The zip is exhausted: texts = tx, and the texts go to the provider.
ZipEnd ==
  /\ em_pc = "zip"
  /\ em_j > Min2(Len(em_texts), Len(em_langs[1]))
  /\ handed' = tx
  /\ em_pc' = "done"
  /\ UNCHANGED <<EMBEDDING_MODEL, em_texts, em_langs, em_j, tx, translate_calls>>
  /\ UNCHANGED embedOthers

TextLists(n) == UNION {[1..k -> {"a", "b"}] : k \in 0..n}

LangLists(n) == {None} \cup {Some(l) : l \in UNION {[1..k -> LangTags] : k \in 0..n}}

EmbedInit ==
  /\ EMBEDDING_MODEL \in Models
  /\ em_texts \in TextLists(MaxEmbedTexts)
  /\ em_langs \in LangLists(MaxEmbedTexts)
  /\ em_pc = "start"
  /\ em_j = 1
  /\ tx = <<>>
  /\ translate_calls = <<>>
  /\ handed = <<>>
  /\ ChunkAtRest
  /\ RetrAtRest
  /\ ScoreAtRest
  /\ StatsAtRest
  /\ BatchAtRest
  /\ ConnAtRest
  /\ PollAtRest
  /\ TableAtRest
  /\ LaterAtRest

EmbedNext == EmbedBegin \/ ZipStep \/ ZipTranslateRaises \/ ZipEnd

SpecEmbed == EmbedInit /\ [][EmbedNext]_vars

\* ------------------------------------------------------------------ cached index handle
\* ask is a plain "def" endpoint: requests run it on the threads of a pool,
\* and a thread can be switched out between any two statements of
\* pinecone_connect. get_cohere_client has the same statements around
\* _cohere_client.
Threads == 1..MaxThreads

\* A request reaches pinecone_connect.
ConnCall(t) ==
  /\ th_pc[t] = "idle"
  /\ th_pc' = [th_pc EXCEPT ![t] = "check"]
  /\ th_obj' = [th_obj EXCEPT ![t] = 0]
  /\ th_ret' = [th_ret EXCEPT ![t] = 0]
  /\ UNCHANGED <<_pinecone_cached, constructed>>
  /\ UNCHANGED connOthers

\* if _pinecone_cached: return _pinecone_cached
ConnCheck(t) ==
  /\ th_pc[t] = "check"
  /\ IF _pinecone_cached # 0
     THEN /\ th_ret' = [th_ret EXCEPT ![t] = _pinecone_cached]
          /\ th_pc' = [th_pc EXCEPT ![t] = "done"]
     ELSE /\ th_pc' = [th_pc EXCEPT ![t] = "secrets"]
          /\ UNCHANGED th_ret
  /\ UNCHANGED <<_pinecone_cached, th_obj, constructed>>
  /\ UNCHANGED connOthers

\* The three secret_string calls, all secrets found.
ConnSecrets(t) ==
  /\ th_pc[t] = "secrets"
  /\ th_pc' = [th_pc EXCEPT ![t] = "construct"]
  /\ UNCHANGED <<_pinecone_cached, th_obj, th_ret, constructed>>
  /\ UNCHANGED connOthers

\* A secret is missing: HTTPException(500).
ConnSecretsMissing(t) ==
  /\ th_pc[t] = "secrets"
  /\ th_pc' = [th_pc EXCEPT ![t] = "raised"]
  /\ UNCHANGED <<_pinecone_cached, th_obj, th_ret, constructed>>
  /\ UNCHANGED connOthers

\* pc = pinecone.Pinecone(api_key=api_key); idx = pc.Index(index_name);
\* PineconeIndex(index=idx): a new object.
ConnConstruct(t) ==
  /\ th_pc[t] = "construct"
  /\ constructed' = constructed + 1
  /\ th_obj' = [th_obj EXCEPT ![t] = constructed + 1]
  /\ th_pc' = [th_pc EXCEPT ![t] = "store"]
  /\ UNCHANGED <<_pinecone_cached, th_ret>>
  /\ UNCHANGED connOthers

\* _pinecone_cached = PineconeIndex(index=idx)
ConnStore(t) ==
  /\ th_pc[t] = "store"
  /\ _pinecone_cached' = th_obj[t]
  /\ th_pc' = [th_pc EXCEPT ![t] = "return"]
  /\ UNCHANGED <<th_obj, th_ret, constructed>>
  /\ UNCHANGED connOthers

\* return _pinecone_cached
ConnReturn(t) ==
  /\ th_pc[t] = "return"
  /\ th_ret' = [th_ret EXCEPT ![t] = _pinecone_cached]
  /\ th_pc' = [th_pc EXCEPT ![t] = "done"]
  /\ UNCHANGED <<_pinecone_cached, th_obj, constructed>>
  /\ UNCHANGED connOthers

\* The thread is given back to the pool and takes the next request.
ConnNextRequest(t) ==
  /\ th_pc[t] \in {"done", "raised"}
  /\ th_pc' = [th_pc EXCEPT ![t] = "idle"]
  /\ UNCHANGED <<_pinecone_cached, th_obj, th_ret, constructed>>
  /\ UNCHANGED connOthers

ConnInit ==
  /\ _pinecone_cached = 0
  /\ th_pc = [t \in Threads |-> "idle"]
  /\ th_obj = [t \in Threads |-> 0]
  /\ th_ret = [t \in Threads |-> 0]
  /\ constructed = 0
  /\ ChunkAtRest
  /\ RetrAtRest
  /\ ScoreAtRest
  /\ StatsAtRest
  /\ EmbedAtRest
  /\ BatchAtRest
  /\ PollAtRest
  /\ TableAtRest
  /\ LaterAtRest

ConnNext ==
  \E t \in Threads :
     \/ ConnCall(t)
     \/ ConnCheck(t)
     \/ ConnSecrets(t)
     \/ ConnSecretsMissing(t)
     \/ ConnConstruct(t)
     \/ ConnStore(t)
     \/ ConnReturn(t)
     \/ ConnNextRequest(t)

SpecConn == ConnInit /\ [][ConnNext]_vars

\* ------------------------------------------------------------------ embedding batches
\* MAX_BATCH = 96
MAX_BATCH == 96

\* The embedding the provider computes for text t.
Vec(t) == [embedding_of |-> t]

\* A sub-batch one text too long.
batch_of_one_more(texts, i) == Slice(texts, i, i + MAX_BATCH + 1)

\* batch = texts[i : i + MAX_BATCH]
batch_of(texts, i) == Slice(texts, i, i + MAX_BATCH)

\* One iteration of "for i in range(0, len(texts), MAX_BATCH)": the request,
\* and a payload ("embeddings", or "data" with one "embedding" each) that
\* holds one vector per text of the batch, in request order.
BatchStep ==
  /\ cb_pc = "loop"
  /\ cb_i < Len(cb_texts)
  /\ LET batch == batch_of(cb_texts, cb_i)
     IN /\ cb_batches' = Append(cb_batches, batch)
        /\ all_embeddings' = all_embeddings \o [j \in 1..Len(batch) |-> Vec(batch[j])]
  /\ cb_i' = cb_i + MAX_BATCH
  /\ UNCHANGED <<cb_pc, cb_texts>>
  /\ UNCHANGED batchOthers

\* An iteration whose payload has neither shape: RuntimeError.
BatchRaises ==
  /\ cb_pc = "loop"
  /\ cb_i < Len(cb_texts)
  /\ cb_batches' = Append(cb_batches, batch_of(cb_texts, cb_i))
  /\ cb_pc' = "raised"
  /\ UNCHANGED <<cb_texts, cb_i, all_embeddings>>
  /\ UNCHANGED batchOthers

\* return all_embeddings
BatchReturn ==
  /\ cb_pc = "loop"
  /\ cb_i >= Len(cb_texts)
  /\ cb_pc' = "done"
  /\ UNCHANGED <<cb_texts, cb_i, cb_batches, all_embeddings>>
  /\ UNCHANGED batchOthers

\* The texts of a call, each named by its position.
BatchInit ==
  /\ cb_pc = "loop"
  /\ cb_texts \in {[j \in 1..n |-> j] : n \in 0..MaxBatchTexts}
  /\ cb_i = 0
  /\ cb_batches = <<>>
  /\ all_embeddings = <<>>
  /\ ChunkAtRest
  /\ RetrAtRest
  /\ ScoreAtRest
  /\ StatsAtRest
  /\ EmbedAtRest
  /\ ConnAtRest
  /\ PollAtRest
  /\ TableAtRest
  /\ LaterAtRest

BatchNext == BatchStep \/ BatchRaises \/ BatchReturn

SpecBatch == BatchInit /\ [][BatchNext]_vars

\* ------------------------------------------------------------------ OCR job polling
\* POLL_SECONDS = 4
POLL_SECONDS == 4

\* POLL_MAX_MINUTES = 30
POLL_MAX_MINUTES == 30

\* resp["JobStatus"]
JobStatuses == {"IN_PROGRESS", "SUCCEEDED", "FAILED", "PARTIAL_SUCCESS"}

\* pages.append(resp)
AppendPage == pages_n' = Min2(pages_n + 1, MaxCounted)

\* An iteration of "while True" whose response carries a NextToken: continue.
PollContinue ==
  /\ poll_pc = "polling"
  /\ \E st \in JobStatuses : status' = st
  /\ AppendPage
  /\ next_token' = TRUE
  /\ UNCHANGED <<poll_pc, waited>>
  /\ UNCHANGED pollOthers

\* A response without NextToken and with status SUCCEEDED: return pages.
PollReturn ==
  /\ poll_pc = "polling"
  /\ status' = "SUCCEEDED"
  /\ AppendPage
  /\ next_token' = FALSE
  /\ poll_pc' = "returned"
  /\ UNCHANGED waited
  /\ UNCHANGED pollOthers

\* A response without NextToken and with status FAILED or PARTIAL_SUCCESS:
\* RuntimeError.
PollRaise ==
  /\ poll_pc = "polling"
  /\ \E st \in {"FAILED", "PARTIAL_SUCCESS"} : status' = st
  /\ AppendPage
  /\ next_token' = FALSE
  /\ poll_pc' = "failed"
  /\ UNCHANGED waited
  /\ UNCHANGED pollOthers

\* A response without NextToken and with any other status: sleep, add
\* POLL_SECONDS to waited, TimeoutError once waited is over the maximum.
PollSleep ==
  /\ poll_pc = "polling"
  /\ status' = "IN_PROGRESS"
  /\ AppendPage
  /\ next_token' = FALSE
  /\ waited' = waited + POLL_SECONDS
  /\ poll_pc' = IF waited + POLL_SECONDS > POLL_MAX_MINUTES * 60 THEN "timeout"
                 ELSE "polling"
  /\ UNCHANGED pollOthers

PollInit ==
  /\ poll_pc = "polling"
  /\ waited = 0
  /\ next_token = FALSE
  /\ status = "IN_PROGRESS"
  /\ pages_n = 0
  /\ ChunkAtRest
  /\ RetrAtRest
  /\ ScoreAtRest
  /\ StatsAtRest
  /\ EmbedAtRest
  /\ BatchAtRest
  /\ ConnAtRest
  /\ TableAtRest
  /\ LaterAtRest

PollNext == PollContinue \/ PollReturn \/ PollRaise \/ PollSleep

\* Every get_document_analysis call returns, so the loop keeps taking steps.
SpecPoll == PollInit /\ [][PollNext]_vars /\ WF_vars(PollNext)

\* ------------------------------------------------------------------ table grids
\* A child id of a TABLE block is given as the block it resolves to in
\* block_map: a CELL, a block of another type, or nothing ("MISSING").
\* RowIndex and ColumnIndex are None or Some(n); words are the blocks the ids
\* of the cell's CHILD relationship resolve to: a WORD, a SELECTION_ELEMENT,
\* a block of another type, or nothing ("MISSING").
Word(t) == [BlockType |-> "WORD", Text |-> t, SelectionStatus |-> "NONE"]

SelectedBox == [BlockType |-> "SELECTION_ELEMENT", Text |-> <<>>, SelectionStatus |-> "SELECTED"]

EmptyBox ==
  [BlockType |-> "SELECTION_ELEMENT", Text |-> <<>>, SelectionStatus |-> "NOT_SELECTED"]

LineBlock == [BlockType |-> "LINE", Text |-> <<"a">>, SelectionStatus |-> "NONE"]

NoBlock == [BlockType |-> "MISSING", Text |-> <<>>, SelectionStatus |-> "NONE"]

WordLists ==
  {<<>>, <<Word(<<"a">>)>>, <<Word(<<" ">>)>>,
   <<NoBlock, Word(<<"a">>), LineBlock, EmptyBox, SelectedBox>>}

CellBlocks ==
  [BlockType : {"CELL"},
   RowIndex : {None} \cup {Some(n) : n \in 1..MaxIndex},
   ColumnIndex : {None} \cup {Some(n) : n \in 1..MaxIndex},
   words : WordLists]

OtherBlocks ==
  {[BlockType |-> bt, RowIndex |-> Some(1), ColumnIndex |-> Some(1), words |-> <<>>] :
     bt \in {"MERGED_CELL", "MISSING"}}

ChildLists == UNION {[1..n -> CellBlocks \cup OtherBlocks] : n \in 0..MaxCells}

\* int(cell.get("RowIndex", 1)), int(cell.get("ColumnIndex", 1))
index_of(field) == IF field = None THEN 1 ELSE field[1]

\* The part a block adds to parts: the Text of a WORD, "[X]" for a selected
\* SELECTION_ELEMENT, nothing (the empty string here) for any other block.
part_of(b) ==
  IF b.BlockType = "WORD" THEN b.Text
  ELSE IF b.BlockType = "SELECTION_ELEMENT" /\ b.SelectionStatus = "SELECTED"
       THEN <<"[", "X", "]">>
  ELSE <<>>

RECURSIVE parts_of(_)
parts_of(words) ==
  IF words = <<>> THEN <<>> ELSE <<part_of(Head(words))>> \o parts_of(Tail(words))

\* The text of every block that has one, whatever its type.
_get_text_for_ids_any_type(words) ==
  join(<<" ">>, SelectSeq([j \in 1..Len(words) |-> words[j].Text], LAMBDA w : w # <<>>))

\* " ".join([p for p in parts if p])
_get_text_for_ids(words) ==
  join(<<" ">>, SelectSeq(parts_of(words), LAMBDA w : w # <<>>))

\* cell_text after the child ids k.. of the table, from cell_text = acc:
\* cell_text[row][col] = text.strip() for every child that is a CELL.
RECURSIVE cell_text_from(_, _, _)
cell_text_from(children, k, acc) ==
  IF k > Len(children) THEN acc
  ELSE IF children[k].BlockType # "CELL" THEN cell_text_from(children, k + 1, acc)
  ELSE LET at == <<index_of(children[k].RowIndex), index_of(children[k].ColumnIndex)>>
           text == strip(_get_text_for_ids(children[k].words))
       IN cell_text_from(children, k + 1,
            [p \in DOMAIN acc \cup {at} |-> IF p = at THEN text ELSE acc[p]])

\* The grid with every row cut after its last cell.
grid_rows_ragged(ct, max_row, max_col) ==
  [r \in 1..max_row |->
     [c \in 1..SetMax({0} \cup {p[2] : p \in {q \in DOMAIN ct : q[1] = r}}) |->
        IF <<r, c>> \in DOMAIN ct THEN ct[<<r, c>>] ELSE <<>>]]

\* rows = [[cell_text.get(r, {}).get(c, "") for c in range(1, max_col + 1)]
\*         for r in range(1, max_row + 1)]
grid_rows(ct, max_row, max_col) ==
  [r \in 1..max_row |->
     [c \in 1..max_col |-> IF <<r, c>> \in DOMAIN ct THEN ct[<<r, c>>] ELSE <<>>]]

\* The body of "for b in blocks" for one TABLE block: the grid, or nothing.
table_of(b) ==
  LET ct == cell_text_from(b.children, 1, <<>>)
  IN IF DOMAIN ct = {} THEN <<>>
     ELSE <<[rows |-> grid_rows(ct, SetMax({p[1] : p \in DOMAIN ct}),
                                    SetMax({p[2] : p \in DOMAIN ct}))]>>

RECURSIVE tables_of(_)
tables_of(bs) == IF bs = <<>> THEN <<>> ELSE table_of(Head(bs)) \o tables_of(Tail(bs))

\* _extract_tables(blocks)
ExtractTables ==
  /\ tb_pc = "call"
  /\ tables' = tables_of(blocks)
  /\ tb_pc' = "done"
  /\ UNCHANGED blocks
  /\ UNCHANGED tableOthers

TableInit ==
  /\ tb_pc = "call"
  /\ blocks \in {<<[BlockType |-> "TABLE", children |-> cs]>> : cs \in ChildLists}
  /\ tables = <<>>
  /\ ChunkAtRest
  /\ RetrAtRest
  /\ ScoreAtRest
  /\ StatsAtRest
  /\ EmbedAtRest
  /\ BatchAtRest
  /\ ConnAtRest
  /\ PollAtRest
  /\ LaterAtRest

TableNext == ExtractTables

SpecTables == TableInit /\ [][TableNext]_vars

\* ------------------------------------------------------------------ table flattening
MaxFlatRows == 2

MaxFlatCols == 2

\* The cells of a grid as _extract_tables leaves them, and with outer blanks.
FlatCells == {<<>>, <<" ">>, <<"a">>}

FlatRows == UNION {[1..n -> FlatCells] : n \in 0..MaxFlatCols}

FlatGrids == UNION {[1..n -> FlatRows] : n \in 0..MaxFlatRows}

\* flat = _flatten_table(tbl.get("rows", []))
FlattenTable ==
  /\ fl_pc = "call"
  /\ fl_out' = _flatten_table(fl_rows)
  /\ fl_pc' = "done"
  /\ UNCHANGED fl_rows
  /\ UNCHANGED flatOthers

FlatInit ==
  /\ fl_pc = "call"
  /\ fl_rows \in FlatGrids
  /\ fl_out = <<>>
  /\ ChunkAtRest
  /\ RetrAtRest
  /\ ScoreAtRest
  /\ StatsAtRest
  /\ EmbedAtRest
  /\ BatchAtRest
  /\ ConnAtRest
  /\ PollAtRest
  /\ TableAtRest
  /\ RetryAtRest
  /\ PromptAtRest
  /\ NormAtRest
  /\ PackAtRest
  /\ UpsertAtRest

FlatNext == FlattenTable

SpecFlatten == FlatInit /\ [][FlatNext]_vars

\* ------------------------------------------------------------------ external calls of a query
MaxRetryTexts == 3

\* stop=stop_after_attempt(3) of the @retry of cohere_embed and titan_embed
STOP_AFTER_ATTEMPT == 3

\* The @retry decorator calls the function again after a raise once more than
\* the limit allows.
may_retry_past_limit(attempts) == attempts <= STOP_AFTER_ATTEMPT

\* The @retry decorator calls the function again after a raise while the
\* attempts made are fewer than the limit.
may_retry(attempts) == attempts < STOP_AFTER_ATTEMPT

Attempted(kind) == [rt_attempts EXCEPT ![kind] = @ + 1]

\* embed_texts, the pivot: translate().translate_text(...) is called once for
\* a French text; it returns, or raises once the AWS client has given up, and
\* the exception leaves embed_texts.
TranslateCall ==
  /\ rt_stage = "translate"
  /\ rt_attempts' = Attempted("translate")
  /\ \/ rt_stage' = "embed"
     \/ rt_stage' = "raised_translate"
  /\ UNCHANGED <<rt_model, rt_texts, rt_j, rt_invokes, rt_degraded>>
  /\ UNCHANGED retryOthers

\* cohere_embed under @retry: one attempt is one invoke_model for all texts;
\* it returns, or raises and is called again, or raises for the last time.
CohereEmbedAttempt ==
  /\ rt_stage = "embed"
  /\ rt_model = "cohere"
  /\ rt_attempts' = Attempted("embed")
  /\ rt_invokes' = rt_invokes + 1
  /\ \/ rt_stage' = "rerank"
     \/ rt_stage' = IF may_retry(rt_attempts.embed + 1) THEN "embed" ELSE "raised_embed"
  /\ UNCHANGED <<rt_model, rt_texts, rt_j, rt_degraded>>
  /\ UNCHANGED retryOthers

\* titan_embed under @retry: an attempt starts with out = [] at the first text.
TitanEmbedAttempt ==
  /\ rt_stage = "embed"
  /\ rt_model = "titan"
  /\ rt_attempts' = Attempted("embed")
  /\ rt_j' = 1
  /\ rt_stage' = "titan_loop"
  /\ UNCHANGED <<rt_model, rt_texts, rt_invokes, rt_degraded>>
  /\ UNCHANGED retryOthers

\* titan_embed, one iteration of "for t in texts": invoke_model for one text
\* returns a vector, or raises (or returns no vector, which raises) and the
\* whole function is called again, or raises for the last time.
TitanInvoke ==
  /\ rt_stage = "titan_loop"
  /\ rt_invokes' = rt_invokes + 1
  /\ \/ /\ rt_j' = rt_j + 1
        /\ rt_stage' = IF rt_j = rt_texts THEN "rerank" ELSE "titan_loop"
     \/ /\ rt_stage' = IF may_retry(rt_attempts.embed) THEN "embed" ELSE "raised_embed"
        /\ UNCHANGED rt_j
  /\ UNCHANGED <<rt_model, rt_texts, rt_attempts, rt_degraded>>
  /\ UNCHANGED retryOthers

\* rerank_results, the try block: client.rerank is called once; it returns, or
\* raises and the except branch returns matches[:top_n].
RerankOnce ==
  /\ rt_stage = "rerank"
  /\ rt_attempts' = Attempted("rerank")
  /\ \E ok \in BOOLEAN : rt_degraded' = ~ok
  /\ rt_stage' = "done"
  /\ UNCHANGED <<rt_model, rt_texts, rt_j, rt_invokes>>
  /\ UNCHANGED retryOthers

\* A query with a monolingual model and a French text starts at the pivot,
\* any other at the embedding.
RetryInit ==
  /\ rt_model \in {"cohere", "titan"}
  /\ rt_stage = IF rt_model = "titan" THEN "translate" ELSE "embed"
  /\ rt_texts \in 1..MaxRetryTexts
  /\ rt_j = 1
  /\ rt_attempts = [embed |-> 0, rerank |-> 0, translate |-> 0]
  /\ rt_invokes = 0
  /\ rt_degraded = FALSE
  /\ ChunkAtRest
  /\ RetrAtRest
  /\ ScoreAtRest
  /\ StatsAtRest
  /\ EmbedAtRest
  /\ BatchAtRest
  /\ ConnAtRest
  /\ PollAtRest
  /\ TableAtRest
  /\ FlatAtRest
  /\ PromptAtRest
  /\ NormAtRest
  /\ PackAtRest
  /\ UpsertAtRest

RetryNext ==
  \/ TranslateCall
  \/ CohereEmbedAttempt
  \/ TitanEmbedAttempt
  \/ TitanInvoke
  \/ RerankOnce

SpecRetry == RetryInit /\ [][RetryNext]_vars

\* ------------------------------------------------------------------ prompt
MaxContexts == 2

\* str(page) for the page numbers of the model.
DigitOf(n) == <<"0", "1", "2", "3", "4", "5", "6", "7", "8", "9">>[n + 1]

\* c["metadata"].get(key, "unk"), formatted into the f-string.
tag_value(v) == IF v = None THEN <<"u", "n", "k">> ELSE v[1]

\* The text of a context as it stands in the metadata.
entry_text_raw(c) == c.text

\* (c["metadata"].get("text") or "").strip()
entry_text(c) == strip(c.text)

\* f"[{cid}:{page}] {text}"
entry_of(c) ==
  <<"[">> \o tag_value(c.doc_id) \o <<":">> \o tag_value(c.page) \o <<"]", " ">>
          \o entry_text(c)

\* build_user_prompt(question, contexts)
build_user_prompt(q, cs) ==
  join(<<"\n">>,
       << <<"C", "o", "n", "t", "e", "x", "t", ":">> >>
       \o [j \in 1..Len(cs) |-> entry_of(cs[j])]
       \o << <<>>,
             <<"U", "s", "e", "r", " ", "q", "u", "e", "s", "t", "i", "o", "n", ":">>,
             strip(q) >>)

\* The metadata of the matches: doc_id and page present or absent, and texts
\* of one paragraph, with outer blanks, and of two lines.
ContextTexts == {<<>>, <<"a">>, <<" ", "a">>, <<"a", "\n", "b">>}

Contexts ==
  [doc_id : {None, Some(<<"d">>)}, page : {None, Some(<<DigitOf(1)>>)},
   text : ContextTexts]

Questions == {<<>>, <<"q">>, <<" ", "q", " ">>}

\* user_prompt = build_user_prompt(inp.query, contexts)
BuildUserPrompt ==
  /\ pr_pc = "call"
  /\ user_prompt' = build_user_prompt(pr_question, pr_contexts)
  /\ pr_pc' = "done"
  /\ UNCHANGED <<pr_question, pr_contexts>>
  /\ UNCHANGED promptOthers

PromptInit ==
  /\ pr_pc = "call"
  /\ pr_question \in Questions
  /\ pr_contexts \in UNION {[1..n -> Contexts] : n \in 0..MaxContexts}
  /\ user_prompt = <<>>
  /\ ChunkAtRest
  /\ RetrAtRest
  /\ ScoreAtRest
  /\ StatsAtRest
  /\ EmbedAtRest
  /\ BatchAtRest
  /\ ConnAtRest
  /\ PollAtRest
  /\ TableAtRest
  /\ FlatAtRest
  /\ RetryAtRest
  /\ NormAtRest
  /\ PackAtRest
  /\ UpsertAtRest

PromptNext == BuildUserPrompt

SpecPrompt == PromptInit /\ [][PromptNext]_vars

\* ------------------------------------------------------------------ normalize
MaxBlocks == 3

\* int(b.get("Page", 1)), with 0 where the key is absent.
page_of_zero_default(b) == IF b.Page = None THEN 0 ELSE b.Page[1]

\* int(b.get("Page", 1))
page_of(b) == IF b.Page = None THEN 1 ELSE b.Page[1]

\* b.get("BlockType") == "LINE" and b.get("Text")
is_line(b) == b.BlockType = "LINE" /\ b.Text # None /\ b.Text[1] # <<>>

\* [all_blocks.extend(p.get("Blocks", [])) for p in textract_pages]
RECURSIVE extend_all(_)
extend_all(ps) == IF ps = <<>> THEN <<>> ELSE Head(ps).Blocks \o extend_all(Tail(ps))

\* by_page[n]: the blocks of page n in the order of all_blocks.
by_page(bs, n) == SelectSeq(bs, LAMBDA b : page_of(b) = n)

\* sorted(by_page.keys())
RECURSIVE sorted_keys(_)
sorted_keys(S) == IF S = {} THEN <<>> ELSE <<SetMin(S)>> \o sorted_keys(S \ {SetMin(S)})

\* The body of "for n in sorted(by_page.keys())"; the language and the boxes
\* are left out, and no block here is a TABLE, so that tables_out is [].
page_out(bs, n) ==
  LET lines == SelectSeq(by_page(bs, n), is_line)
  IN [page |-> n,
      text |-> join(<<"\n">>, [j \in 1..Len(lines) |-> lines[j].Text[1]]),
      blocks |-> [j \in 1..Len(lines) |-> [type |-> "LINE", text |-> lines[j].Text[1]]],
      tables |-> <<>>]

\* normalize(textract_pages, doc_id, source_key, metadata)
Normalize ==
  /\ nm_pc = "call"
  /\ all_blocks' = extend_all(textract_pages)
  /\ LET keys == sorted_keys({page_of(all_blocks'[j]) : j \in 1..Len(all_blocks')})
     IN pages_out' = [k \in 1..Len(keys) |-> page_out(all_blocks', keys[k])]
  /\ nm_pc' = "done"
  /\ UNCHANGED textract_pages
  /\ UNCHANGED normOthers

\* The blocks of a response: LINE blocks with a Page or none and with a Text,
\* an empty Text or none, and WORD blocks.
RawBlocks ==
  [Page : {None, Some(1), Some(2)}, BlockType : {"LINE"},
   Text : {None, Some(<<>>), Some(<<"a">>), Some(<<"b">>)}]
  \cup [Page : {Some(1), Some(2)}, BlockType : {"WORD"}, Text : {Some(<<"a">>)}]

\* The responses of one job: a block list cut in two at any place.
TextractResponses ==
  {<<[Blocks |-> SubSeq(bs, 1, k)], [Blocks |-> SubSeq(bs, k + 1, Len(bs))]>> :
     <<bs, k>> \in {x \in (UNION {[1..n -> RawBlocks] : n \in 0..MaxBlocks})
                          \X (0..MaxBlocks) : x[2] <= Len(x[1])}}

NormInit ==
  /\ nm_pc = "call"
  /\ textract_pages \in TextractResponses
  /\ all_blocks = <<>>
  /\ pages_out = <<>>
  /\ ChunkAtRest
  /\ RetrAtRest
  /\ ScoreAtRest
  /\ StatsAtRest
  /\ EmbedAtRest
  /\ BatchAtRest
  /\ ConnAtRest
  /\ PollAtRest
  /\ TableAtRest
  /\ FlatAtRest
  /\ RetryAtRest
  /\ PromptAtRest
  /\ PackAtRest
  /\ UpsertAtRest

NormNext == Normalize

SpecNormalize == NormInit /\ [][NormNext]_vars

\* ------------------------------------------------------------------ paragraph packing
MaxParas == 3

MaxPackSize == 5

\* Paragraphs as the comprehension of _split_paragraphs leaves them: trimmed
\* and not empty, possibly with a single newline inside.
Paragraphs == {<<"a">>, <<"b", "b">>, <<"a", "\n", "b", "b">>}

\* _split_paragraphs, one iteration of "for p in paras". pk_groups records
\* which paragraphs each flushed unit, and then the buffer, was made of.
PackStep ==
  /\ pk_pc = "loop"
  /\ pk_k <= Len(pk_paras)
  /\ LET p == pk_paras[pk_k] IN
     IF fits(pk_buf, p, pk_size)
     THEN /\ pk_buf' = IF pk_buf # <<>> THEN strip(pk_buf \o <<"\n">> \o p) ELSE p
          /\ pk_groups' = IF pk_buf # <<>>
                          THEN [pk_groups EXCEPT ![Len(pk_groups)] = Append(@, pk_k)]
                          ELSE Append(pk_groups, <<pk_k>>)
          /\ UNCHANGED pk_out
     ELSE /\ pk_out' = IF pk_buf # <<>> THEN Append(pk_out, pk_buf) ELSE pk_out
          /\ pk_buf' = p
          /\ pk_groups' = Append(pk_groups, <<pk_k>>)
  /\ pk_k' = pk_k + 1
  /\ UNCHANGED <<pk_pc, pk_size, pk_paras>>
  /\ UNCHANGED packOthers

\* _split_paragraphs after the loop: "if buf: out.append(buf)" and return out.
PackReturn ==
  /\ pk_pc = "loop"
  /\ pk_k > Len(pk_paras)
  /\ pk_out' = IF pk_buf # <<>> THEN Append(pk_out, pk_buf) ELSE pk_out
  /\ pk_pc' = "done"
  /\ UNCHANGED <<pk_size, pk_paras, pk_k, pk_buf, pk_groups>>
  /\ UNCHANGED packOthers

PackInit ==
  /\ pk_pc = "loop"
  /\ pk_size \in 0..MaxPackSize
  /\ pk_paras \in UNION {[1..n -> Paragraphs] : n \in 0..MaxParas}
  /\ pk_k = 1
  /\ pk_buf = <<>>
  /\ pk_out = <<>>
  /\ pk_groups = <<>>
  /\ ChunkAtRest
  /\ RetrAtRest
  /\ ScoreAtRest
  /\ StatsAtRest
  /\ EmbedAtRest
  /\ BatchAtRest
  /\ ConnAtRest
  /\ PollAtRest
  /\ TableAtRest
  /\ FlatAtRest
  /\ RetryAtRest
  /\ PromptAtRest
  /\ NormAtRest
  /\ UpsertAtRest

PackNext == PackStep \/ PackReturn

SpecPack == PackInit /\ [][PackNext]_vars

\* ------------------------------------------------------------------ pinecone_upsert
MaxUpsertChunks == 130

\* BATCH_SIZE = 64
BATCH_SIZE == 64

\* The chunks of a run: the i-th has an id of its own; vectors[i] is the
\* embedding of its text, named here by the position it stands at.
UpsertChunks(n) == [i \in 1..n |-> [id |-> 1000 + i]]

vector_at(i) == [embedding_of |-> i]

\* {"id": c.id, "values": vec, "metadata": meta}, for the chunk at 0-based i
record_of(cs, i) ==
  [id |-> cs[i + 1].id, values |-> vector_at(i + 1),
   metadata |-> [chunk_id |-> cs[i + 1].id]]

\* The batch is sent only once it is longer than BATCH_SIZE.
must_flush_past_limit(b) == Len(b) > BATCH_SIZE

\* if len(batch) >= BATCH_SIZE
must_flush(b) == Len(b) >= BATCH_SIZE

\* pinecone_upsert, one iteration of "for i, c in enumerate(chunks)".
UpsertStep ==
  /\ up_pc = "loop"
  /\ up_i < Len(up_chunks)
  /\ LET b == Append(up_batch, record_of(up_chunks, up_i)) IN
     IF must_flush(b)
     THEN /\ upserts' = Append(upserts, b)
          /\ up_total' = up_total + Len(b)
          /\ up_batch' = <<>>
     ELSE /\ up_batch' = b
          /\ UNCHANGED <<upserts, up_total>>
  /\ up_i' = up_i + 1
  /\ UNCHANGED <<up_pc, up_chunks>>
  /\ UNCHANGED upsertOthers

\* pinecone_upsert after the loop: the batch that is left is sent, and total
\* is returned.
UpsertReturn ==
  /\ up_pc = "loop"
  /\ up_i >= Len(up_chunks)
  /\ IF up_batch # <<>>
     THEN /\ upserts' = Append(upserts, up_batch)
          /\ up_total' = up_total + Len(up_batch)
     ELSE UNCHANGED <<upserts, up_total>>
  /\ up_pc' = "done"
  /\ UNCHANGED <<up_chunks, up_i, up_batch>>
  /\ UNCHANGED upsertOthers

\* The index is connected and the texts are embedded, one vector a chunk.
UpsertInit ==
  /\ up_pc = "loop"
  /\ \E n \in 0..MaxUpsertChunks : up_chunks = UpsertChunks(n)
  /\ up_i = 0
  /\ up_batch = <<>>
  /\ up_total = 0
  /\ upserts = <<>>
  /\ ChunkAtRest
  /\ RetrAtRest
  /\ ScoreAtRest
  /\ StatsAtRest
  /\ EmbedAtRest
  /\ BatchAtRest
  /\ ConnAtRest
  /\ PollAtRest
  /\ TableAtRest
  /\ FlatAtRest
  /\ RetryAtRest
  /\ PromptAtRest
  /\ NormAtRest
  /\ PackAtRest

UpsertNext == UpsertStep \/ UpsertReturn

SpecUpsert == UpsertInit /\ [][UpsertNext]_vars

\* ------------------------------------------------------------------ claims: chunker
\* The configurations the chunker's contract is stated for.
ValidConfig == CHUNK_SIZE >= 1 /\ CHUNK_OVERLAP >= 0 /\ CHUNK_OVERLAP < CHUNK_SIZE

HasChunk(type, len) ==
  \E n \in 1..Len(chunks) : chunks[n].type = type /\ Len(chunks[n].text) = len

\* C1: under a valid configuration every Segment build_chunks emits, text or
\* table, has len(text) <= maxSegmentLength.
C1_SegmentLengthBounded ==
  ValidConfig => \A n \in 1..Len(chunks) : Len(chunks[n].text) <= CHUNK_SIZE

\* A finished run that emitted a full-length text segment and a full-length
\* table segment.
C1_Witness ==
  /\ ValidConfig
  /\ pc = "done"
  /\ HasChunk("text", CHUNK_SIZE)
  /\ HasChunk("table", CHUNK_SIZE)
  /\ \E n \in 1..Len(chunks) : Len(chunks[n].text) < CHUNK_SIZE

\* The last n characters of s, the first n characters of s.
Suffix(s, n) == SubSeq(s, Len(s) - n + 1, Len(s))

Prefix(s, n) == SubSeq(s, 1, n)

\* C2: while an oversized unit is being sliced under a valid configuration,
\* the window just emitted (not the last one) has length exactly
\* maxSegmentLength, the next window starts exactly overlapLength characters
\* before its end, and the two share exactly those overlapLength characters.
C2_WindowsOverlapExactly ==
  (ValidConfig /\ pc = "sw_while" /\ sw_prev >= 0) =>
     LET ch == sw_in[sw_k]
         prev == sw_out[Len(sw_out)]
         next == Slice(ch, sw_i, sw_i + CHUNK_SIZE)
     IN /\ Len(prev) = CHUNK_SIZE
        /\ sw_i = sw_prev + CHUNK_SIZE - CHUNK_OVERLAP
        /\ sw_i < Len(ch)
        /\ Len(next) >= CHUNK_OVERLAP
        /\ Suffix(prev, CHUNK_OVERLAP) = Prefix(next, CHUNK_OVERLAP)
        /\ prev = Slice(ch, sw_prev, sw_prev + CHUNK_SIZE)

\* Two windows have been emitted with a non-zero overlap, a third is due,
\* and it will be the short last one.
C2_Witness ==
  /\ ValidConfig
  /\ CHUNK_OVERLAP >= 1
  /\ pc = "sw_while"
  /\ sw_prev >= 0
  /\ Len(sw_out) >= 2
  /\ Len(sw_in[sw_k]) - sw_i < CHUNK_SIZE

\* C3: with maxSegmentLength = 0 chunking fails fast; the slicing loop never
\* goes round leaving the start index where it was.
C3_ZeroSizeFailsFast ==
  CHUNK_SIZE = 0 => ~(pc = "sw_while" /\ sw_prev = sw_i)

\* C4: a configuration with overlapLength >= maxSegmentLength is rejected
\* before slicing, so that the start index strictly increases from window to
\* window.
C4_OverlapBelowSizeEnforced ==
  (pc = "sw_while" /\ CHUNK_SIZE >= 1) =>
     /\ CHUNK_OVERLAP < CHUNK_SIZE
     /\ sw_prev >= 0 => sw_i > sw_prev

\* The number of windows of a unit of length len under a valid configuration.
WindowCount(len) ==
  IF len <= CHUNK_SIZE THEN 1
  ELSE 1 + ((len - CHUNK_SIZE) + (CHUNK_SIZE - CHUNK_OVERLAP) - 1)
             \div (CHUNK_SIZE - CHUNK_OVERLAP)

RECURSIVE TotalWindows(_)
TotalWindows(units) ==
  IF units = <<>> THEN 0 ELSE WindowCount(Len(Head(units))) + TotalWindows(Tail(units))

\* The ids the contract gives the tables t.. (0-based) of a page.
RECURSIVE ExpectedTableIds(_, _, _)
ExpectedTableIds(doc_id, page, t) ==
  IF t >= Len(page.tables) THEN <<>>
  ELSE LET flat == _flatten_table(page.tables[t + 1].rows)
           own == IF strip(flat) = <<>> THEN <<>>
                  ELSE [n \in 1..WindowCount(Len(flat)) |->
                          TableId(doc_id, page.page, t, n - 1)]
       IN own \o ExpectedTableIds(doc_id, page, t + 1)

\* The ids the contract gives the pages k.. of a document.
RECURSIVE ExpectedIds(_, _)
ExpectedIds(doc, k) ==
  IF k > Len(doc.pages) THEN <<>>
  ELSE LET page == doc.pages[k] IN
       [n \in 1..TotalWindows(_split_paragraphs(page.text)) |->
          TextId(doc.doc_id, page.page, n - 1)]
       \o ExpectedTableIds(doc.doc_id, page, 0)
       \o ExpectedIds(doc, k + 1)

\* C5: a second run of build_chunks on the same document returns the ids of
\* the first run in the same order, and the ids are {docId}-p{page}-seg{n}
\* and {docId}-p{page}-table{t}-seg{n}, n counting from 0 in emission order
\* and t being the table's position in the page's table list.
C5_IdsStableAndFormed ==
  /\ (run = 2 /\ pc = "done") => Ids(chunks) = first_ids
  /\ pc = "done" => Ids(chunks) = ExpectedIds(normalized, 1)

\* A second run has finished on a two-page document whose second page has a
\* table that flattens to nothing before one that is sliced.
C5_Witness ==
  /\ run = 2
  /\ pc = "done"
  /\ Len(first_ids) >= 4
  /\ \E n \in 1..Len(chunks) : chunks[n].id = "doc-p2-seg1"
  /\ \E n \in 1..Len(chunks) : chunks[n].id = "doc-p2-table1-seg1"

\* ------------------------------------------------------------------ claims: retrieval
\* The first n of the candidates as the index returned them.
FirstFetched(n) == SubSeq(fetched, 1, Min2(n, Len(fetched)))

\* C6: wherever the rerank step raises (obtaining the client, the rerank
\* call, applying the results), ask does not fail because of it and goes on
\* with the first rerankTopN fetched candidates in their order, none of them
\* carrying a rerank score.
C6_RerankFailureDegrades ==
  rerank_raised # "none" =>
     /\ failed_at # "rerank"
     /\ apc \in {"answer", "responded"} => matches = FirstFetched(RERANK_TOP_N)
     /\ \A j \in 1..Len(citations) : citations[j].rerank_score = None

\* C7 as stated: after a rerank call that raised, the response has
\* min(k, number of fetched candidates) results.
C7_FallbackReturnsMinOfK ==
  (apc = "responded" /\ ENABLE_RERANK /\ rerank_raised = "call") =>
     Len(citations) = Min2(req_k, Len(fetched))

\* C7 as amended: after a rerank call that raised, the response has
\* min(rerankTopN, number of fetched candidates) results, whatever k is.
C7_FallbackReturnsMinOfTopN ==
  (apc = "responded" /\ ENABLE_RERANK /\ rerank_raised = "call") =>
     Len(citations) = Min2(RERANK_TOP_N, Len(fetched))

\* A response after a rerank call that raised, with more candidates fetched
\* than rerankTopN and k different from rerankTopN.
C7_Witness ==
  /\ apc = "responded"
  /\ ENABLE_RERANK
  /\ rerank_raised = "call"
  /\ RERANK_TOP_N >= 1
  /\ RERANK_TOP_N # req_k
  /\ Len(fetched) > RERANK_TOP_N
  /\ Len(citations) = RERANK_TOP_N

\* C8 as stated: for every response of the index and of the reranker the
\* result list has at most rerankTopN entries (rerank enabled) or k entries
\* (disabled).
C8_ResultLengthBounded ==
  apc = "responded" =>
     Len(citations) <= (IF ENABLE_RERANK THEN RERANK_TOP_N ELSE req_k)

\* The index returned no more matches than the top_k it was asked for.
IndexHonoursTopK == \A j \in 1..Len(index_queries) : Len(fetched) <= index_queries[j]

\* The reranker returned no more results than the top_n it was asked for.
RerankerHonoursTopN == \A j \in 1..Len(rerank_calls) : Len(rerank_response) <= rerank_calls[j]

\* C8 as amended: the bound holds for every response in which the index
\* returns at most top_k matches and the reranker at most top_n results.
C8_ResultLengthBoundedByContract ==
  (apc = "responded" /\ IndexHonoursTopK /\ RerankerHonoursTopN) =>
     Len(citations) <= (IF ENABLE_RERANK THEN RERANK_TOP_N ELSE req_k)

\* A reranked response of exactly rerankTopN results out of more candidates.
C8_Witness ==
  /\ apc = "responded"
  /\ ENABLE_RERANK
  /\ IndexHonoursTopK
  /\ RerankerHonoursTopN
  /\ rerank_raised = "none"
  /\ rerank_calls # <<>>
  /\ Len(fetched) > RERANK_TOP_N
  /\ Len(citations) = RERANK_TOP_N
  /\ RERANK_TOP_N >= 2
  /\ req_k < RERANK_TOP_N

\* C9: the index is asked for RETRIEVAL_K candidates when reranking is
\* enabled and for the request's k when it is disabled, once per request; the
\* rerank step is entered, and the reranker called, only when reranking is
\* enabled and candidates were fetched.
C9_FetchSizeAndRerankGuard ==
  /\ Len(index_queries) <= 1
  /\ \A j \in 1..Len(index_queries) :
       index_queries[j] = (IF ENABLE_RERANK THEN RETRIEVAL_K ELSE req_k)
  /\ (apc \in {"rerank", "rerank_call"} \/ rerank_calls # <<>> \/ rerank_raised # "none")
       => (ENABLE_RERANK /\ fetched # <<>>)
  /\ apc \in {"rerank", "rerank_call", "answer", "responded"} => Len(index_queries) = 1

\* A request with reranking disabled asked the index for its own k, which
\* differs from RETRIEVAL_K, got matches and answered without reranking.
C9_Witness ==
  /\ ~ENABLE_RERANK
  /\ apc = "responded"
  /\ index_queries = <<req_k>>
  /\ req_k # RETRIEVAL_K
  /\ fetched # <<>>
  /\ rerank_calls = <<>>

\* ------------------------------------------------------------------ claims: citation scorer
\* C10: for a batch of one example with expected set E and returned set R
\* the scorer reports precision |E n R| / |R| (0 if R is empty) and recall
\* |E n R| / |E| (0 if E is empty); E = R = {(d,1)} gives 1, 1, 1 and
\* E = {(d,1),(d,2)}, R = {(d,1)} gives 1, 1/2, 2/3.
C10_SingleExampleScores ==
  (spc = "done" /\ examples_seen = 1) =>
     LET E == cur_E
         R == cur_R
         both == Cardinality(E \cap R)
     IN /\ metrics.citation_precision
             = (IF R = {} THEN <<0, 1>> ELSE Frac(both, Cardinality(R)))
        /\ metrics.citation_recall
             = (IF E = {} THEN <<0, 1>> ELSE Frac(both, Cardinality(E)))
        /\ (E = {<<"d", 1>>} /\ R = {<<"d", 1>>}) =>
             metrics = [citation_precision |-> <<1, 1>>, citation_recall |-> <<1, 1>>,
                        citation_f1 |-> <<1, 1>>]
        /\ (E = {<<"d", 1>>, <<"d", 2>>} /\ R = {<<"d", 1>>}) =>
             metrics = [citation_precision |-> <<1, 1>>, citation_recall |-> <<1, 2>>,
                        citation_f1 |-> <<2, 3>>]

\* A batch of one example, E = {(d,1),(d,2)}, R = {(d,1)}, scored 1, 1/2, 2/3.
C10_Witness ==
  /\ spc = "done"
  /\ examples_seen = 1
  /\ count = 1
  /\ cur_E = {<<"d", 1>>, <<"d", 2>>}
  /\ cur_R = {<<"d", 1>>}
  /\ metrics.citation_precision = <<1, 1>>
  /\ metrics.citation_recall = <<1, 2>>
  /\ metrics.citation_f1 = <<2, 3>>

\* C11: an example leaves the aggregate's denominator unchanged exactly when
\* its expected and its returned citation sets are both empty; with an empty
\* expected set and a non-empty returned set it is counted and adds 0 to both
\* sums.
C11_ExcludedIffBothEmpty ==
  [][(examples_seen' = examples_seen + 1) =>
       /\ (count' = count) <=> (cur_E' = {} /\ cur_R' = {})
       /\ (cur_E' = {} /\ cur_R' # {}) =>
            /\ count' = count + 1
            /\ total_precision' = total_precision
            /\ total_recall' = total_recall]_vars

\* The sum of component k of the pairs of a sequence.
RECURSIVE SumOf(_, _)
SumOf(seq, k) == IF seq = <<>> THEN <<0, 1>> ELSE FAdd(Head(seq)[k], SumOf(Tail(seq), k))

MeanOf(seq, k) == FDiv(SumOf(seq, k), FInt(Len(seq)))

\* The harmonic mean of two rates, 0 when both are 0.
HarmonicMean(x, y) ==
  IF x[1] = 0 /\ y[1] = 0 THEN <<0, 1>>
  ELSE Frac(2 * x[1] * y[1], x[1] * y[2] + y[1] * x[2])

\* The mean of the per-example F1 of a sequence of <<precision, recall>>.
RECURSIVE SumF1(_)
SumF1(seq) ==
  IF seq = <<>> THEN <<0, 1>>
  ELSE FAdd(HarmonicMean(Head(seq)[1], Head(seq)[2]), SumF1(Tail(seq)))

\* C12: the aggregate precision and recall are the arithmetic means of the
\* per-example precision and recall over the counted examples, the aggregate
\* F1 is the harmonic mean of those two means (0 when both are 0), and all
\* three are 0 when no example is counted.
C12_MacroAverage ==
  (spc = "done") =>
     IF scores = <<>>
     THEN metrics = [citation_precision |-> <<0, 1>>, citation_recall |-> <<0, 1>>,
                     citation_f1 |-> <<0, 1>>]
     ELSE /\ metrics.citation_precision = MeanOf(scores, 1)
          /\ metrics.citation_recall = MeanOf(scores, 2)
          /\ metrics.citation_f1 = HarmonicMean(MeanOf(scores, 1), MeanOf(scores, 2))

\* Two counted examples scored (1, 1) and (1, 1/2): the aggregate is 1, 3/4
\* and F1 = 6/7, which is not the mean 5/6 of the per-example F1.
C12_Witness ==
  /\ spc = "done"
  /\ Len(scores) = 2
  /\ {scores[1], scores[2]} = {<<<<1, 1>>, <<1, 1>>>>, <<<<1, 1>>, <<1, 2>>>>}
  /\ metrics = [citation_precision |-> <<1, 1>>, citation_recall |-> <<3, 4>>,
                citation_f1 |-> <<6, 7>>]
  /\ FDiv(SumF1(scores), FInt(2)) = <<5, 6>>

\* ------------------------------------------------------------------ claims: rerank-score statistics
\* The scores of the citations that carry one, in the order visited.
PresentScores == SelectSeq(seen_scores, LAMBDA sc : sc # None)

\* The keys of the result that hold a number.
NumericKeys == {"num_scored_citations", "avg_rerank_score", "min_rerank_score",
                "max_rerank_score", "median_rerank_score", "q1_rerank_score",
                "q3_rerank_score"}

\* C13: the statistics are computed over exactly the citations whose rerank
\* score is present, a score of 0 included and an absent one excluded; when no
\* citation of the batch has a score, the result says has_rerank_scores =
\* false and holds no numeric statistic.
C13_StatsOverPresentScores ==
  (st_pc = "done") =>
     IF PresentScores = <<>>
     THEN /\ stats.has_rerank_scores = FALSE
          /\ DOMAIN stats \cap NumericKeys = {}
     ELSE LET vals == [j \in 1..Len(PresentScores) |-> PresentScores[j][1]]
          IN /\ stats.has_rerank_scores = TRUE
             /\ stats.num_scored_citations = Len(vals)
             /\ stats.avg_rerank_score = Frac(SumSeq(vals), Len(vals))
             /\ stats.min_rerank_score = SetMin(Range(vals))
             /\ stats.max_rerank_score = SetMax(Range(vals))

\* A batch whose citations carry a score of 0, no score, and a score of 2:
\* two scored citations, average 1, minimum 0.
C13_Witness ==
  /\ st_pc = "done"
  /\ seen_scores = <<Some(0), None, Some(2)>>
  /\ stats.has_rerank_scores = TRUE
  /\ stats.num_scored_citations = 2
  /\ stats.avg_rerank_score = <<1, 1>>
  /\ stats.min_rerank_score = 0

\* ------------------------------------------------------------------ claims: embedding pivot
\* C14: the pivot step hands on exactly one prepared text per input text,
\* whatever the model and the list of language tags.
C14_PivotKeepsLength ==
  (em_pc = "done") => Len(handed) = Len(em_texts)

\* The tag of text j, None when the list of tags has no position j.
TagOf(j) ==
  IF em_langs # None /\ j <= Len(em_langs[1]) THEN em_langs[1][j] ELSE None

\* The model is one of the monolingual ones: a Titan model or an English one.
DeclaredMonolingual ==
  \E j \in 1..Len(EMBEDDING_MODEL) : EMBEDDING_MODEL[j] \in {"titan", "english"}

IsEnglish(lg) == lg # None /\ startswith(lg[1], <<"e", "n">>)

\* C15 as stated: with a monolingual model every text tagged with a language
\* other than English is handed on as its translation, and every text tagged
\* English unchanged.
C15_NonDefaultTranslated ==
  (em_pc = "done" /\ DeclaredMonolingual) =>
     \A j \in 1..Len(em_texts) :
        (TagOf(j) # None /\ TagOf(j)[1] # <<>>) =>
           /\ j <= Len(handed)
           /\ handed[j] = IF IsEnglish(TagOf(j)) THEN em_texts[j]
                           ELSE Translated(em_texts[j])

\* The texts at positions j..n whose tag starts with "fr", in order.
RECURSIVE FrenchTexts(_, _)
FrenchTexts(j, n) ==
  IF j > n THEN <<>>
  ELSE (IF TagOf(j) # None /\ startswith(TagOf(j)[1], <<"f", "r">>)
        THEN <<em_texts[j]>> ELSE <<>>) \o FrenchTexts(j + 1, n)

\* C15, amended: with a monolingual model and a non-empty list of tags, every
\* text whose tag starts with "fr" is handed on as its translation from
\* French into English, every other text that has a tag position (English,
\* another language, an empty or absent tag) is handed on unchanged, and the
\* translator is called for the French-tagged texts only.
C15_FrenchTranslated ==
  (em_pc = "done" /\ DeclaredMonolingual /\ em_langs # None
     /\ em_langs[1] # <<>>) =>
     /\ \A j \in 1..Min2(Len(em_texts), Len(em_langs[1])) :
           /\ j <= Len(handed)
           /\ handed[j] = IF TagOf(j) # None /\ startswith(TagOf(j)[1], <<"f", "r">>)
                           THEN Translated(em_texts[j])
                           ELSE em_texts[j]
     /\ translate_calls = FrenchTexts(1, Min2(Len(em_texts), Len(em_langs[1])))

\* A monolingual model, a text tagged fr-CA and one tagged es: the first
\* is translated, the second is not.
C15_Witness ==
  /\ em_pc = "done"
  /\ DeclaredMonolingual
  /\ em_texts = <<"a", "b">>
  /\ em_langs = Some(<<Some(<<"f", "r", "-", "C", "A">>), Some(<<"e", "s">>)>>)
  /\ handed = <<Translated("a"), "b">>
  /\ translate_calls = <<"a">>

\* C16: with a multilingual model the texts handed to the provider are the
\* input texts, whatever their tags, and the translator is never called.
C16_MultilingualPassThrough ==
  ~DeclaredMonolingual =>
     /\ translate_calls = <<>>
     /\ (em_pc = "done") => handed = em_texts

\* A multilingual model and two texts tagged French, handed on as they are.
C16_Witness ==
  /\ em_pc = "done"
  /\ ~DeclaredMonolingual
  /\ em_texts = <<"a", "b">>
  /\ em_langs = Some(<<Some(<<"f", "r">>), Some(<<"f", "r">>)>>)
  /\ handed = <<"a", "b">>
  /\ translate_calls = <<>>

\* ------------------------------------------------------------------ claims: cached index handle
\* C17: under every interleaving of the requests that call pinecone_connect
\* the client is constructed at most once, and the cached handle, once set,
\* is never replaced by another object.
C17_SingleInitialization ==
  /\ [](constructed <= 1)
  /\ [][_pinecone_cached # 0 => _pinecone_cached' = _pinecone_cached]_vars

\* ------------------------------------------------------------------ claims: embedding batches
\* The sub-batches sent so far, one after the other.
RECURSIVE Flatten(_)
Flatten(batches) == IF batches = <<>> THEN <<>> ELSE Head(batches) \o Flatten(Tail(batches))

\* C18: the texts are sent in consecutive sub-batches of at most 96 texts,
\* each text in exactly one of them, and the sub-batch results are
\* concatenated in order: with a provider that returns one vector per text in
\* request order, the i-th returned vector belongs to the i-th text and there
\* are as many vectors as texts.
C18_BatchesCoverInOrder ==
  /\ \A b \in 1..Len(cb_batches) :
        Len(cb_batches[b]) >= 1 /\ Len(cb_batches[b]) <= 96
  /\ Flatten(cb_batches) = SubSeq(cb_texts, 1, Len(Flatten(cb_batches)))
  /\ (cb_pc = "done") =>
        /\ Flatten(cb_batches) = cb_texts
        /\ Len(all_embeddings) = Len(cb_texts)
        /\ \A j \in 1..Len(cb_texts) : all_embeddings[j] = [embedding_of |-> cb_texts[j]]

\* 200 texts: three sub-batches of 96, 96 and 8 texts, 200 vectors back.
C18_Witness ==
  /\ cb_pc = "done"
  /\ Len(cb_texts) = 200
  /\ Len(cb_batches) = 3
  /\ Len(cb_batches[1]) = 96
  /\ Len(cb_batches[3]) = 8
  /\ Len(all_embeddings) = 200
  /\ all_embeddings[193] = [embedding_of |-> 193]

\* ------------------------------------------------------------------ claims: OCR job polling
\* C19: whatever the service answers, poll_textract ends: it returns after a
\* SUCCEEDED response without continuation token, raises on FAILED or
\* PARTIAL_SUCCESS, or raises the timeout once the accumulated wait is over
\* POLL_MAX_MINUTES * 60 seconds; it never polls without bound.
C19_PollTerminates ==
  /\ <>(poll_pc # "polling")
  /\ [](poll_pc = "returned" => (status = "SUCCEEDED" /\ ~next_token))
  /\ [](poll_pc = "timeout" => waited > 30 * 60)

\* ------------------------------------------------------------------ claims: table grids
\* The (row, column) positions of the resolved cells of the table.
ResolvedAt ==
  {<<IF blocks[1].children[k].RowIndex = <<>> THEN 1
       ELSE blocks[1].children[k].RowIndex[1],
     IF blocks[1].children[k].ColumnIndex = <<>> THEN 1
       ELSE blocks[1].children[k].ColumnIndex[1]>> :
     k \in {i \in 1..Len(blocks[1].children) : blocks[1].children[i].BlockType = "CELL"}}

\* C20: every grid _extract_tables produces has exactly maxRow rows of
\* exactly maxCol entries each, maxRow and maxCol being the largest row and
\* column index of a resolved cell of the table, and every position no cell
\* is assigned to holds the empty string.
C20_GridIsDenseRectangle ==
  (tb_pc = "done") =>
     IF ResolvedAt = {} THEN tables = <<>>
     ELSE /\ Len(tables) = 1
          /\ LET rows == tables[1].rows
                 maxRow == CHOOSE m \in {p[1] : p \in ResolvedAt} :
                              \A p \in ResolvedAt : p[1] <= m
                 maxCol == CHOOSE m \in {p[2] : p \in ResolvedAt} :
                              \A p \in ResolvedAt : p[2] <= m
             IN /\ Len(rows) = maxRow
                /\ \A r \in 1..Len(rows) :
                      /\ Len(rows[r]) = maxCol
                      /\ \A c \in 1..Len(rows[r]) :
                            (<<r, c>> \notin ResolvedAt) => rows[r][c] = <<>>

\* Cells at (1, 1) and (2, 2) only: a 2 x 2 grid whose two other positions
\* hold the empty string.
C20_Witness ==
  /\ tb_pc = "done"
  /\ ResolvedAt = {<<1, 1>>, <<2, 2>>}
  /\ Len(tables) = 1
  /\ tables[1].rows = << <<<<"a">>, <<>>>>, <<<<>>, <<"a">>>> >>

\* The children of the table that resolve to a CELL, in order.
ResolvedCells == SelectSeq(blocks[1].children, LAMBDA ch : ch.BlockType = "CELL")

\* The (row, column) position of a cell.
PositionOf(cell) ==
  <<IF cell.RowIndex = <<>> THEN 1 ELSE cell.RowIndex[1],
    IF cell.ColumnIndex = <<>> THEN 1 ELSE cell.ColumnIndex[1]>>

\* The text of a cell from its children that resolve to a WORD or to a
\* selected SELECTION_ELEMENT; every other child id is left out.
RECURSIVE UsableText(_)
UsableText(words) ==
  IF words = <<>> THEN <<>>
  ELSE LET w == Head(words)
           mine == IF w.BlockType = "WORD" /\ w.Text # <<>> THEN <<w.Text>>
                   ELSE IF w.BlockType = "SELECTION_ELEMENT" /\ w.SelectionStatus = "SELECTED"
                        THEN << <<"[", "X", "]">> >>
                   ELSE <<>>
       IN mine \o UsableText(Tail(words))

\* C21: child ids that resolve to nothing, or to a block of the wrong kind,
\* are skipped, among a table's children and among a cell's children: the
\* call completes, a table none of whose children is a CELL gives no grid,
\* and every position a cell is assigned to holds the trimmed text of the
\* usable children of the last such cell.
C21_DanglingChildrenSkipped ==
  (tb_pc = "done") =>
     IF ResolvedCells = <<>> THEN tables = <<>>
     ELSE /\ Len(tables) = 1
          /\ \A k \in 1..Len(ResolvedCells) :
                (\A l \in (k + 1)..Len(ResolvedCells) :
                    PositionOf(ResolvedCells[l]) # PositionOf(ResolvedCells[k])) =>
                   tables[1].rows[PositionOf(ResolvedCells[k])[1]][PositionOf(ResolvedCells[k])[2]]
                     = strip(join(<<" ">>, UsableText(ResolvedCells[k].words)))

\* A table whose first child id resolves to nothing and whose second is a
\* cell with a dangling child, a word, a line and two selection elements:
\* one grid with the one cell "a [X]".
C21_Witness ==
  /\ tb_pc = "done"
  /\ Len(blocks[1].children) = 2
  /\ blocks[1].children[1].BlockType = "MISSING"
  /\ blocks[1].children[2].BlockType = "CELL"
  /\ Len(blocks[1].children[2].words) = 5
  /\ tables = << [rows |-> << << <<"a", " ", "[", "X", "]">> >> >>] >>

\* ------------------------------------------------------------------ claims: table flattening
\* Every cell of the row is empty once trimmed.
AllCellsEmpty(r) == \A c \in 1..Len(r) : strip(r[c]) = <<>>

\* The bullet lines of the rows that have a non-empty cell, in row order.
RECURSIVE BulletLines(_)
BulletLines(rows) ==
  IF rows = <<>> THEN <<>>
  ELSE (IF AllCellsEmpty(Head(rows)) THEN <<>>
        ELSE << <<"-", " ">> \o join(<<" ", "|", " ">>, StripAll(Head(rows))) >>)
       \o BulletLines(Tail(rows))

\* C22: a row all of whose cells are empty after trimming gives no bullet
\* line, whatever its number of columns; every other row gives the one line
\* "- c1 | c2 | ..." of its trimmed cells, in row order.
C22_EmptyRowsGiveNoBullet ==
  (fl_pc = "done") => fl_out = join(<<"\n">>, BulletLines(fl_rows))

\* ------------------------------------------------------------------ claims: retrieval failures
\* C23: a request whose vector-index query (or query embedding) fails is
\* answered, with an empty citation list (and an empty answer); it does not
\* leave ask as an exception.
C23_QueryFailureAnsweredEmpty ==
  (failed_at = "query") => (apc = "responded" /\ citations = <<>>)

\* ------------------------------------------------------------------ claims: retries
\* The failure of a call of this kind has left its stage as an exception.
Surfaced(kind) == rt_stage = "raised_" \o kind

\* C24 as stated: a failing embedding, rerank or translation call is retried,
\* a bounded number of times (at most 3 for the embedding), and the failure
\* that remains is surfaced to the caller of the stage. The attempts a client
\* library makes inside one call are not counted against the statement: it
\* is read as saying that a rerank call that failed ends the stage with the
\* failure, as a failed embedding or translation does.
C24_FailuresRetriedThenSurfaced ==
  /\ rt_attempts.embed <= 3
  /\ Surfaced("embed") => rt_attempts.embed > 1
  /\ rt_degraded => Surfaced("rerank")

\* C24 as amended: the embedding function is attempted at most 3 times and
\* its failure is surfaced after exactly 3; the rerank call and the
\* translation call are made once each; a failed translation is surfaced, a
\* failed rerank is not: the request goes on to its end with the fallback.
C24_EmbeddingRetriedRerankDegrades ==
  /\ rt_attempts.embed <= 3
  /\ Surfaced("embed") => rt_attempts.embed = 3
  /\ rt_model = "cohere" => rt_invokes = rt_attempts.embed
  /\ rt_attempts.translate <= 1
  /\ Surfaced("translate") => (rt_attempts.translate = 1 /\ rt_attempts.embed = 0)
  /\ rt_attempts.rerank <= 1
  /\ rt_degraded => (rt_attempts.rerank = 1 /\ rt_stage = "done")

\* The embedding of three texts succeeded at its third attempt, and the
\* rerank call that followed failed once and was replaced by the fallback.
C24_Witness ==
  /\ rt_stage = "done"
  /\ rt_model = "titan"
  /\ rt_texts = 3
  /\ rt_attempts = [embed |-> 3, rerank |-> 1, translate |-> 1]
  /\ rt_degraded

\* ------------------------------------------------------------------ claims: prompt
\* The lines of a text: its pieces between newlines.
RECURSIVE LinesOf(_, _)
LinesOf(s, cur) ==
  IF s = <<>> THEN <<cur>>
  ELSE IF Head(s) = "\n" THEN <<cur>> \o LinesOf(Tail(s), <<>>)
  ELSE LinesOf(Tail(s), Append(cur, Head(s)))

\* The tag [doc_id:page] of a context, "unk" standing for an absent key.
TagOfContext(c) ==
  <<"[">> \o (IF c.doc_id = <<>> THEN <<"u", "n", "k">> ELSE c.doc_id[1])
          \o <<":">> \o (IF c.page = <<>> THEN <<"u", "n", "k">> ELSE c.page[1])
          \o <<"]">>

BeginsWith(s, p) == Len(s) >= Len(p) /\ SubSeq(s, 1, Len(p)) = p

QuestionHeader ==
  <<"U", "s", "e", "r", " ", "q", "u", "e", "s", "t", "i", "o", "n", ":">>

\* C25 as stated: the output has one line per context (after the header
\* line the code puts first), in context order, each beginning with the tag
\* of its context, followed by an empty line, the line "User question:" and
\* the trimmed question.
C25_OneLinePerContext ==
  (pr_pc = "done") =>
     LET ls == LinesOf(user_prompt, <<>>)
         n == Len(pr_contexts)
     IN /\ Len(ls) = 1 + n + 3
        /\ \A j \in 1..n : BeginsWith(ls[1 + j], TagOfContext(pr_contexts[j]))
        /\ ls[n + 2] = <<>>
        /\ ls[n + 3] = QuestionHeader
        /\ ls[n + 4] = strip(pr_question)

\* The entries of the contexts from position j on, each ended by a newline.
RECURSIVE EntriesFrom(_)
EntriesFrom(cs) ==
  IF cs = <<>> THEN <<>>
  ELSE TagOfContext(Head(cs)) \o <<" ">> \o strip(Head(cs).text) \o <<"\n">>
       \o EntriesFrom(Tail(cs))

\* C25 as amended: the output is the line "Context:", then one entry per
\* context in context order, made of the tag, a space and the trimmed text of
\* the context (several lines when that text holds newlines), then an empty
\* line, the line "User question:" and the trimmed question.
C25_HeaderEntriesQuestion ==
  (pr_pc = "done") =>
     user_prompt = <<"C", "o", "n", "t", "e", "x", "t", ":", "\n">>
                   \o EntriesFrom(pr_contexts)
                   \o <<"\n">> \o QuestionHeader \o <<"\n">> \o strip(pr_question)

\* Two contexts, the first without doc_id and with a text of two lines, the
\* second with outer blanks, and a question with blanks around it.
C25_Witness ==
  /\ pr_pc = "done"
  /\ Len(pr_contexts) = 2
  /\ pr_contexts[1] = [doc_id |-> <<>>, page |-> << <<"1">> >>, text |-> <<"a", "\n", "b">>]
  /\ pr_contexts[2].text = <<" ", "a">>
  /\ pr_question = <<" ", "q", " ">>
  /\ Len(LinesOf(user_prompt, <<>>)) = 7

\* ------------------------------------------------------------------ claims: normalize
\* The raw elements in the order of the responses.
RECURSIVE RawSequence(_)
RawSequence(ps) ==
  IF ps = <<>> THEN <<>> ELSE Head(ps).Blocks \o RawSequence(Tail(ps))

\* The page number of a raw element (1 when it names none).
PageNo(b) == IF b.Page = <<>> THEN 1 ELSE b.Page[1]

\* The Line elements of page n, in their order in the raw sequence.
LineElements(n) ==
  SelectSeq(RawSequence(textract_pages),
            LAMBDA b : b.BlockType = "LINE" /\ PageNo(b) = n)

\* Those of them that carry a non-empty text.
TextLines(n) ==
  SelectSeq(LineElements(n), LAMBDA b : b.Text # <<>> /\ b.Text[1] # <<>>)

PagesIncrease ==
  /\ \A k \in 1..(Len(pages_out) - 1) : pages_out[k].page < pages_out[k + 1].page
  /\ {pages_out[k].page : k \in 1..Len(pages_out)}
       = {PageNo(b) : b \in {RawSequence(textract_pages)[j] :
                                j \in 1..Len(RawSequence(textract_pages))}}

TextIsJoinOfRecords(p) ==
  p.text = join(<<"\n">>, [j \in 1..Len(p.blocks) |-> p.blocks[j].text])

\* C26 as stated: the text of every emitted page is the newline-join of the
\* texts of its line records, which are the Line elements of the page in raw
\* order (one record per Line element); a page without Line element has the
\* text "" and no record; page numbers increase strictly.
C26_RecordsAreLineElements ==
  (nm_pc = "done") =>
     /\ PagesIncrease
     /\ \A k \in 1..Len(pages_out) :
          /\ TextIsJoinOfRecords(pages_out[k])
          /\ Len(pages_out[k].blocks) = Len(LineElements(pages_out[k].page))

\* C26 as amended: the line records of a page are its Line elements that
\* carry a non-empty text, in raw order; the text is the newline-join of
\* their texts; a page without such an element has the text "" and no
\* record; page numbers increase strictly.
C26_RecordsAreTextLines ==
  (nm_pc = "done") =>
     /\ PagesIncrease
     /\ \A k \in 1..Len(pages_out) :
          LET p == pages_out[k]
              ls == TextLines(p.page)
          IN /\ TextIsJoinOfRecords(p)
             /\ p.blocks = [j \in 1..Len(ls) |-> [type |-> "LINE", text |-> ls[j].Text[1]]]
             /\ (ls = <<>>) => (p.text = <<>> /\ p.blocks = <<>>)

\* Page 2 comes first in the raw sequence with a word only, page 1 follows
\* with a Line without text and a Line "a" that names no page: page 1 is
\* emitted first with the one record "a", page 2 with no record.
C26_Witness ==
  /\ nm_pc = "done"
  /\ Len(all_blocks) = 3
  /\ all_blocks[1] = [Page |-> <<2>>, BlockType |-> "WORD", Text |-> << <<"a">> >>]
  /\ all_blocks[2] = [Page |-> <<1>>, BlockType |-> "LINE", Text |-> << <<>> >>]
  /\ all_blocks[3] = [Page |-> <<>>, BlockType |-> "LINE", Text |-> << <<"a">> >>]
  /\ Len(pages_out) = 2
  /\ pages_out[1] = [page |-> 1, text |-> <<"a">>,
                     blocks |-> <<[type |-> "LINE", text |-> <<"a">>]>>, tables |-> <<>>]
  /\ pages_out[2] = [page |-> 2, text |-> <<>>, blocks |-> <<>>, tables |-> <<>>]

\* ------------------------------------------------------------------ claims: paragraph packing
\* The paragraphs numbered by g, joined by newlines.
JoinedParas(g) == join(<<"\n">>, [j \in 1..Len(g) |-> pk_paras[g[j]]])

\* The paragraph numbers of all groups, one group after the other.
RECURSIVE GroupNumbers(_)
GroupNumbers(gs) == IF gs = <<>> THEN <<>> ELSE Head(gs) \o GroupNumbers(Tail(gs))

\* C27: packing is greedy and keeps the order. Once _split_paragraphs has
\* returned, its units are made of consecutive paragraphs that cover all
\* paragraphs once and in order; a paragraph was joined to the unit before it
\* exactly when len(buffer) + 1 + len(paragraph) <= maxSegmentLength held;
\* a unit longer than maxSegmentLength is made of one paragraph; and the
\* units joined give the paragraphs joined.
C27_GreedyOrderPreservingPacking ==
  (pk_pc = "done") =>
     /\ Len(pk_groups) = Len(pk_out)
     /\ GroupNumbers(pk_groups) = [j \in 1..Len(pk_paras) |-> j]
     /\ \A u \in 1..Len(pk_out) :
          LET g == pk_groups[u] IN
          /\ pk_out[u] = JoinedParas(g)
          /\ \A j \in 2..Len(g) :
               Len(JoinedParas(SubSeq(g, 1, j - 1))) + 1 + Len(pk_paras[g[j]]) <= pk_size
          /\ u > 1 =>
               Len(pk_out[u - 1]) + 1 + Len(pk_paras[g[1]]) > pk_size
          /\ Len(pk_out[u]) > pk_size => Len(g) = 1
     /\ join(<<"\n">>, pk_out) = join(<<"\n">>, pk_paras)
     /\ pk_out = Pack(pk_paras, 1, <<>>, <<>>, pk_size)

\* With maxSegmentLength 3, "a" and "a" are packed into "a\na" and the
\* paragraph "a\nbb" that does not fit is a unit of its own, longer than 3.
C27_Witness ==
  /\ pk_pc = "done"
  /\ pk_size = 3
  /\ pk_paras = << <<"a">>, <<"a">>, <<"a", "\n", "b", "b">> >>
  /\ pk_out = << <<"a", "\n", "a">>, <<"a", "\n", "b", "b">> >>
  /\ pk_groups = << <<1, 2>>, <<3>> >>

\* ------------------------------------------------------------------ claims: segment ids
\* C28: within one run of build_chunks over a document whose pages have
\* pairwise distinct page numbers, no two emitted segments, text or table, on
\* any page, have the same id.
C28_IdsPairwiseDistinct ==
  (\A k, l \in 1..Len(normalized.pages) :
      k # l => normalized.pages[k].page # normalized.pages[l].page) =>
     \A m, n \in 1..Len(chunks) : m # n => chunks[m].id # chunks[n].id

\* A finished run over two pages that emitted text segments with the same
\* ordinal on both pages and a table segment with that ordinal as well.
C28_Witness ==
  /\ pc = "done"
  /\ Len(normalized.pages) = 2
  /\ \E n \in 1..Len(chunks) : chunks[n].id = "doc-p1-seg0"
  /\ \E n \in 1..Len(chunks) : chunks[n].id = "doc-p2-seg0"
  /\ \E n \in 1..Len(chunks) : chunks[n].id = "doc-p1-table1-seg0"
  /\ \E n \in 1..Len(chunks) : chunks[n].id = "doc-p2-table1-seg0"

\* ------------------------------------------------------------------ claims: sliding window
\* The windows with every window after the first cut by its first
\* overlapLength characters, one after the other.
RECURSIVE Reassembled(_, _)
Reassembled(ws, first) ==
  IF ws = <<>> THEN <<>>
  ELSE (IF first THEN Head(ws) ELSE SubSeq(Head(ws), CHUNK_OVERLAP + 1, Len(Head(ws))))
       \o Reassembled(Tail(ws), FALSE)

\* The windows ws are those of the unit u and lose none of its text.
LosesNoText(u, ws) ==
  IF Len(u) <= CHUNK_SIZE THEN ws = <<u>>
  ELSE /\ Len(ws) >= 2
       /\ ws[1] = SubSeq(u, 1, CHUNK_SIZE)
       /\ ws[Len(ws)] = SubSeq(u, Len(u) - Len(ws[Len(ws)]) + 1, Len(u))
       /\ ws[Len(ws)] # <<>>
       /\ Reassembled(ws, TRUE) = u

\* The windows out are those of the units, unit after unit.
RECURSIVE AllLoseNoText(_, _)
AllLoseNoText(units, out) ==
  IF units = <<>> THEN out = <<>>
  ELSE LET c == WindowCount(Len(Head(units))) IN
       /\ Len(out) >= c
       /\ LosesNoText(Head(units), SubSeq(out, 1, c))
       /\ AllLoseNoText(Tail(units), SubSeq(out, c + 1, Len(out)))

\* C29: for 0 <= overlapLength < maxSegmentLength, _sliding_window loses no
\* text: whenever it is between two units, the windows emitted so far are,
\* for each unit done, the unit itself if it is not longer than
\* maxSegmentLength, and otherwise windows of which the first starts at index
\* 0, the last ends at the unit's end, and the first followed by the others
\* without their first overlapLength characters is the unit.
C29_WindowsLoseNoText ==
  (ValidConfig /\ pc = "sw_for") =>
     AllLoseNoText(SubSeq(sw_in, 1, sw_k - 1), sw_out)

\* A unit of four characters with a newline inside has been sliced into
\* three windows of two characters that overlap by one.
C29_Witness ==
  /\ CHUNK_SIZE = 2
  /\ CHUNK_OVERLAP = 1
  /\ pc = "sw_for"
  /\ sw_k = 2
  /\ sw_in[1] = <<"a", "\n", "a", "a">>
  /\ sw_out = << <<"a", "\n">>, <<"\n", "a">>, <<"a", "a">> >>

\* ------------------------------------------------------------------ claims: upsert
\* C30: pinecone_upsert sends every chunk once and in chunk order, in
\* batches of 1 to 64 records, each record with the id of its chunk and the
\* vector at the position of its chunk; the total returned is the number of
\* chunks, and an empty chunk list makes no upsert call.
C30_EveryChunkUpsertedOnce ==
  /\ \A k \in 1..Len(upserts) : Len(upserts[k]) >= 1 /\ Len(upserts[k]) <= 64
  /\ (up_pc = "done") =>
       /\ Len(Flatten(upserts)) = Len(up_chunks)
       /\ \A j \in 1..Len(up_chunks) :
            /\ Flatten(upserts)[j].id = up_chunks[j].id
            /\ Flatten(upserts)[j].values = [embedding_of |-> j]
       /\ up_total = Len(up_chunks)
       /\ (up_chunks = <<>>) => (upserts = <<>>)

\* 130 chunks have been sent in two batches of 64 and a last batch of 2.
C30_Witness ==
  /\ up_pc = "done"
  /\ Len(up_chunks) = 130
  /\ Len(upserts) = 3
  /\ Len(upserts[1]) = 64
  /\ Len(upserts[2]) = 64
  /\ Len(upserts[3]) = 2
  /\ up_total = 130

====
